---- MODULE Spec2Model ----
(***************************************************************************)
(* GitQuest: the story state machine (StoryEngine in story-engine.js),     *)
(* the narrative sources it calls (aiEngine.generateScene and              *)
(* generateFallbackScene), the save slots of storage.js, the composer      *)
(* (MusicEngine in music-engine.js) and the handlers of app.js that drive  *)
(* them.                                                                   *)
(*                                                                         *)
(* JavaScript runs one handler at a time; a handler is interrupted only at *)
(* an await of a promise that is settled by the outside world.  The only   *)
(* such await of the engine is the call of the language model inside       *)
(* generateNextScene, so every action below is one run-to-completion       *)
(* stretch of code: from a call of a public method up to that await, or    *)
(* from the settling of the request to the end of the awaiting method.     *)
(***************************************************************************)
EXTENDS Integers, Sequences, FiniteSets, TLC

VARIABLES
    state,        \* StoryEngine.state (NullState before the first game)
    generating,   \* StoryEngine.generating
    inflight,     \* the calls of aiEngine.generateScene that have not settled
    saves,        \* localStorage, the keys under KEYS.SAVE_PREFIX
    now,          \* the clock read by Date.now()
    emitted,      \* the observer callbacks invoked by the last step, in order
    thrown,       \* the error thrown by the last step ("" when none)
    lastCall,     \* the call or event handled by the last step
    calls,        \* the calls of startGame, saveGame and loadGame made so far
    composer,     \* the fields of the MusicEngine
    tone,         \* Tone.js: the transport, the nodes alive, the pending starts
    app,          \* the fields of app.js and what its handlers showed last
    rng,          \* a SeededRNG: its seed and what its last call returned
    analysed,     \* the commit list given to analyzeCommits and its results
    cache,        \* localStorage, the keys under KEYS.CACHE_PREFIX and the index
    reply         \* a response text of the language model and what was parsed from it

libVars == <<rng, analysed, cache, reply>>
appVars == <<composer, tone, app, libVars>>
vars == <<state, generating, inflight, saves, now, emitted, thrown, lastCall, calls,
          composer, tone, app, rng, analysed, cache, reply>>

-----------------------------------------------------------------------------
(* Bounds of the model *)

MaxCommits == 3     \* longest commit list of the short repositories
MaxTurns == 3       \* choices accepted in a game of a short repository
MaxClock == 1       \* last value of the clock
MaxCalls == 2       \* calls of startGame, saveGame and loadGame from outside
LongLen == 13       \* length of the commit list of the repository of fixes
XpLen == 67         \* length of the commit list of the plain repository
FreeDraws == 20     \* turns of the plain game that draw either end of the xp range
MaxInits == 2       \* init calls of the composer
MaxPending == 1     \* play() calls waiting for Tone.start() at a time
MaxRngSteps == 6    \* calls of next() on one generator
MaxAnalyses == 2    \* calls of analyzeCommits on one commit list
QuestLen == 5       \* length of the commit list of the repository of quests
UpkeepLen == 4      \* longest commit list of the repositories of upkeep work
MaxTokens == 8      \* tokens of a response text
MaxExtraKeys == 1   \* cache keys beyond MAX_CACHE
ReusedKeys == 1     \* cache keys that are stored again and read

-----------------------------------------------------------------------------
(* Program constants *)

XP_PER_LEVEL == <<0, 100, 250, 450, 700, 1000, 1400, 1900, 2500, 3200>>
MaxLevel == 10
DefaultNextLevelXp == 9999
XpGainBase == 20
XpGainSpan == 30
StartHp == 100
LevelMaxHpBonus == 10
LevelHeal == 20
BoldHpCost == 10
SafeHpGain == 5
MinHp == 1
InventoryCap == 8
QuestLogCap == 10
ChapterSize == 10
NullTime == 0 - 1   \* savedAt: null
DayMs == 86400000   \* 1000 * 60 * 60 * 24
MaxVoices == 4
FullEnergy == 10    \* energy 1, in tenths
HalfEnergy == 5     \* energy 0.5, in tenths
SeedCommits == 5    \* commits.slice(0, 5)
RootCount == 12     \* ROOTS.length

Styles == {"dnd", "scifi", "horror"}

Min(a, b) == IF a < b THEN a ELSE b
Max(a, b) == IF a > b THEN a ELSE b
Range(seq) == {seq[i] : i \in 1..Len(seq)}

\* JavaScript arrays are indexed from 0, TLA+ sequences from 1.
At(seq, i) == seq[i + 1]
InRange(seq, i) == i >= 0 /\ i < Len(seq)

RECURSIVE Contains(_, _)
Contains(seq, x) ==
    IF seq = <<>> THEN FALSE
    ELSE IF Head(seq) = x THEN TRUE ELSE Contains(Tail(seq), x)

NoDuplicates(seq) ==
    \A i, j \in 1..Len(seq) : i # j => seq[i] # seq[j]

-----------------------------------------------------------------------------
(* Commit records (parseCommit).  A subject is modelled by the set of the   *)
(* keywords that occur in it once lower-cased: a regular expression such   *)
(* as /fix|bug|patch/ matches when one of its alternatives occurs.          *)

\* Subjects of upkeep work: "Refactor parser", "Update dependencies",
\* "Improve logging after merge", "Clean up for release".
UpkeepCycle ==
    << {"refactor"}, {"update"}, {"improve", "merge"}, {"clean", "release"} >>

SubjectCycle ==
    << {"fix"}, {"feat"}, {"merge"}, {"refactor", "release"}, {} >>

\* A 32-bit unsigned number is the pair <<hi, lo>> of its 16-bit halves, so
\* that no sum or product leaves the range of the checker's integers.
Half == 65536
Byte == 256

Word(hi, lo) == <<hi, lo>>
MaxWord == Word(Half - 1, Half - 1)     \* 0xFFFFFFFF

\* a ^ b on 16-bit numbers
RECURSIVE Xor16(_, _)
Xor16(a, b) ==
    IF a = 0 THEN b
    ELSE IF b = 0 THEN a
    ELSE ((a + b) % 2) + 2 * Xor16(a \div 2, b \div 2)

\* ToInt32: the signed 32-bit number with the bits of the word
ToInt32(w) ==
    IF w[1] >= Half \div 2 THEN (w[1] - Half) * Half + w[2] ELSE w[1] * Half + w[2]

\* acc ^ n for a signed 32-bit acc and an unsigned 32-bit n, as a word
XorWord(acc, w) == Word(Xor16(acc[1], w[1]), Xor16(acc[2], w[2]))

\* a % n in JavaScript: the sign of the result is the sign of a
JsRem(a, n) == IF a >= 0 \/ a % n = 0 THEN a % n ELSE (a % n) - n

\* parseInt(sha.slice(0, 8), 16).  The shas of the repositories of hex
\* commits are the numbers 1..6 and begin with the digits below; every
\* other sha begins with its own number, written in eight hex digits.
HexPrefixes ==
    << Word(9973, 46880),       \* 26f5b720
       Word(61440, 0),          \* f0000000
       Word(65535, 65535),      \* ffffffff
       Word(32768, 1),          \* 80000001
       Word(4660, 22136),       \* 12345678
       Word(43981, 61185) >>    \* abcdef01

ShaPrefix(sha) ==
    IF sha <= Len(HexPrefixes) THEN HexPrefixes[sha]
    ELSE Word(sha \div Half, sha % Half)

\* The author of the raw commit with this sha: three authors take turns.
AuthorOf(sha) == sha % 3

\* parseCommit: date is a Date object, timestamp its getTime().
parseCommit(sha, subject) ==
    [ sha |-> sha,
      subject |-> subject,
      author |-> [name |-> AuthorOf(sha)],
      date |-> [type |-> "Date", ms |-> sha],
      timestamp |-> sha ]

\* The commit list fetchCommits returns for a repository.
RepoCommits(repo) ==
    [i \in 1..repo.n |->
        parseCommit(CASE repo.kind = "hex" -> i
                      [] repo.kind = "xeh" -> Len(HexPrefixes) + 1 - i
                      [] OTHER -> 1000 * repo.n + i,
                    CASE repo.kind = "fixes" -> {"fix", "bug"}
                      [] repo.kind = "feats" -> {"feat", "add"}
                      [] repo.kind = "plain" -> {}
                      [] repo.kind = "quests" -> {"refactor", "release", "merge"}
                      [] repo.kind = "upkeep" ->
                             UpkeepCycle[((i - 1) % Len(UpkeepCycle)) + 1]
                      [] OTHER -> SubjectCycle[((i - 1) % Len(SubjectCycle)) + 1])]

MixedRepos == {[kind |-> "mixed", n |-> n] : n \in 1..MaxCommits}
FeatsRepo == [kind |-> "feats", n |-> MaxCommits]
FixesRepo == [kind |-> "fixes", n |-> LongLen]
PlainRepo == [kind |-> "plain", n |-> XpLen]
QuestsRepo == [kind |-> "quests", n |-> QuestLen]
UpkeepRepos == {[kind |-> "upkeep", n |-> n] : n \in 1..UpkeepLen}
EmptyRepo == [kind |-> "mixed", n |-> 0]
HexRepos == {[kind |-> k, n |-> n] : k \in {"hex", "xeh"}, n \in 1..Len(HexPrefixes)}

\* analyzeCommits: null for an empty list; otherwise the counts the engine
\* stores and the musical parameters the composer reads.  energy is held in
\* tenths: Math.min(1, commitsPerDay / 10) is Min(10, commitsPerDay) tenths.
NullAnalysis == [isNull |-> TRUE]

\* commits.slice(0, 5).reduce((acc, c) => acc ^ parseInt(c.sha.slice(0, 8), 16), 0),
\* over the first k commits: the bits of the accumulator
RECURSIVE XorFold(_, _)
XorFold(commits, k) ==
    IF k = 0 THEN Word(0, 0)
    ELSE XorWord(XorFold(commits, k - 1), ShaPrefix(commits[k].sha))

\* (faulty variant: the days are counted up to the time of the call)
analyzeCommits_ReadsClock(commits) ==
    IF Len(commits) = 0 THEN NullAnalysis
    ELSE [ isNull |-> FALSE,
           totalCommits |-> Len(commits),
           fixCount |-> 0,
           hashSeed |-> ToInt32(XorFold(commits, Min(SeedCommits, Len(commits)))),
           music |-> [ voices |-> 1, energy |-> Min(FullEnergy, Len(commits) + now) ] ]

analyzeCommits(commits) ==
    IF Len(commits) = 0 THEN NullAnalysis
    ELSE LET totalCommits == Len(commits)
             authors == {commits[i].author.name : i \in 1..Len(commits)}
             oldest == commits[Len(commits)].timestamp
             newest == commits[1].timestamp
             daySpan == Max(1, (newest - oldest) \div DayMs)
             commitsPerDay == totalCommits \div daySpan
         IN  [ isNull |-> FALSE,
               totalCommits |-> totalCommits,
               hashSeed |-> ToInt32(XorFold(commits, Min(SeedCommits, Len(commits)))),
               fixCount |-> Cardinality({i \in 1..Len(commits) :
                               commits[i].subject \cap {"fix", "bug", "patch", "hotfix"} # {}}),
               music |-> [ voices |-> Min(MaxVoices, Max(1, Cardinality(authors))),
                           energy |-> Min(FullEnergy, commitsPerDay) ] ]

IsFix(msg)      == msg \cap {"fix", "bug", "patch"} # {}
IsFeat(msg)     == msg \cap {"feat", "add", "new"} # {}
IsRefactor(msg) == msg \cap {"refactor", "clean"} # {}
IsRelease(msg)  == msg \cap {"release", "version", "v1"} # {}
IsMerge(msg)    == msg \cap {"merge"} # {}

-----------------------------------------------------------------------------
(* Scenes *)

NullScene == [isNull |-> TRUE]

ChoiceLabels == <<"A", "B", "C">>

FallbackChoiceSets ==
    [ dnd |-> << [label |-> "A", text |-> "Draw your sword and face what lies ahead"],
                 [label |-> "B", text |-> "Consult the ancient scrolls for guidance"],
                 [label |-> "C", text |-> "Seek allies before proceeding"] >>,
      scifi |-> << [label |-> "A", text |-> "Execute primary mission objective"],
                   [label |-> "B", text |-> "Run diagnostics and assess the situation"],
                   [label |-> "C", text |-> "Contact command for further instructions"] >>,
      horror |-> << [label |-> "A", text |-> "Go deeper. You need to know the truth."],
                    [label |-> "B", text |-> "Stay where you are. Moving feels wrong."],
                    [label |-> "C", text |-> "Try to leave. While you still can."] >> ]

\* generateFallbackScene: the template is chosen by the commit index, and
\* interpolates the commit and the style.
\* (faulty variant: no choice set for the horror style)
generateFallbackScene_HorrorWithoutChoices(commit, style, currentCommitIndex, total) ==
    [ isNull |-> FALSE,
      narrative |-> [src |-> "fallback", sha |-> commit.sha, style |-> style,
                     index |-> currentCommitIndex, total |-> total],
      choices |-> IF style = "horror" THEN <<>> ELSE FallbackChoiceSets[style],
      isEpilogue |-> FALSE ]

generateFallbackScene(commit, style, currentCommitIndex, total) ==
    [ isNull |-> FALSE,
      narrative |-> [src |-> "fallback", sha |-> commit.sha, style |-> style,
                     index |-> currentCommitIndex, total |-> total],
      choices |-> FallbackChoiceSets[style],
      isEpilogue |-> FALSE ]

\* parseAIResponse on a response in which n labelled choices are found
\* (n = 0: the fixed generic set is substituted).
GenericChoices ==
    << [label |-> "A", text |-> "Press forward boldly"],
       [label |-> "B", text |-> "Proceed with caution"],
       [label |-> "C", text |-> "Seek more information"] >>

AIChoiceTexts == <<"ai choice A", "ai choice B", "ai choice C">>

parseAIResponse(req, n) ==
    [ isNull |-> FALSE,
      narrative |-> [src |-> "ai", sha |-> At(req.commits, req.currentCommitIndex).sha,
                     style |-> req.style, index |-> req.currentCommitIndex,
                     total |-> Len(req.commits)],
      choices |-> IF n = 0 THEN GenericChoices
                  ELSE [i \in 1..n |-> [label |-> ChoiceLabels[i],
                                        text |-> AIChoiceTexts[i]]],
      isEpilogue |-> FALSE ]

\* parseAIResponse(text).  A text is a sequence of tokens: the markers [A],
\* [B], [C] and words.  The expression /\[([ABC])\]\s*(.+?)(?=\[[ABC]\]|$)/gs
\* is run with exec until it fails: a match begins at the next marker that
\* has something after it, and its text runs up to the next marker that
\* comes after at least one token, or to the end.
ChoiceMarkers == <<"[A]", "[B]", "[C]">>
Markers == {"[A]", "[B]", "[C]"}
Tokens == Markers \cup {"word"}
NoReply == [text |-> <<>>, parsed |-> FALSE, narrative |-> <<>>, choices |-> <<>>]

Least(S) == CHOOSE x \in S : \A y \in S : x <= y

RECURSIVE MatchChoices(_, _)
MatchChoices(text, from) ==
    LET starts == {p \in from..(Len(text) - 1) : text[p] \in Markers}
    IN  IF starts = {} THEN <<>>
        ELSE LET p == Least(starts)
                 ends == {q \in (p + 2)..Len(text) : text[q] \in Markers}
                 q == IF ends = {} THEN Len(text) + 1 ELSE Least(ends)
             IN  <<[label |-> text[p], text |-> SubSeq(text, p + 1, q - 1)]>>
                     \o MatchChoices(text, q)

parseReply(text) ==
    LET choices == MatchChoices(text, 1)
        firstA == {p \in 1..Len(text) : text[p] = "[A]"}
    IN  [ text |-> text,
          parsed |-> TRUE,
          narrative |-> IF firstA # {} /\ Least(firstA) > 1
                        THEN SubSeq(text, 1, Least(firstA) - 1) ELSE text,
          choices |-> IF Len(choices) = 0
                      THEN [i \in 1..3 |-> [label |-> ChoiceMarkers[i],
                                            text |-> <<GenericChoices[i].text>>]]
                      ELSE choices ]

EpilogueChoices ==
    << [label |-> "A", text |-> "Begin a new quest with another repository"],
       [label |-> "B", text |-> "Replay this adventure with a different style"],
       [label |-> "C", text |-> "Return to the beginning"] >>

\* The scene generateEpilogue builds from the state.
EpilogueScene(st) ==
    [ isNull |-> FALSE,
      narrative |-> [src |-> "epilogue", style |-> st.style,
                     total |-> Len(st.commits), hp |-> st.hp, maxHp |-> st.maxHp,
                     level |-> st.level, xp |-> st.xp],
      choices |-> EpilogueChoices,
      isEpilogue |-> TRUE ]

IsEpilogue(scene) == ~scene.isNull /\ scene.isEpilogue

-----------------------------------------------------------------------------
(* GameState *)

NullState == [isNull |-> TRUE]

createInitialState(repo, style, commits, analysis, t) ==
    [ isNull |-> FALSE,
      repo |-> repo,
      style |-> style,
      commits |-> commits,
      analysis |-> analysis,
      commitIndex |-> 0,
      chapter |-> 1,
      hp |-> StartHp,
      maxHp |-> StartHp,
      xp |-> 0,
      level |-> 1,
      inventory |-> <<>>,
      questLog |-> <<>>,
      history |-> <<>>,
      currentScene |-> NullScene,
      startedAt |-> t,
      savedAt |-> NullTime ]

-----------------------------------------------------------------------------
(* storage.js: save slots.  JSON.stringify writes a Date as its ISO string; *)
(* JSON.parse reads a string back as a string.                              *)

NoSave == [isNull |-> TRUE]

Slots == {"auto", "slot_1"}

JSONDate(d) == IF d.type = "Date" THEN [type |-> "string", ms |-> d.ms] ELSE d

JSONStringify(st) ==
    [ isNull |-> FALSE,
      corrupt |-> FALSE,
      json |-> [st EXCEPT !.commits =
                   [i \in 1..Len(st.commits) |->
                       [st.commits[i] EXCEPT !.date = JSONDate(@)]]] ]

JSONParse(raw) == raw.json

\* storage.saveGame(slot, state), t the value of Date.now() it reads
storageSaveGame(store, slot, st, t) ==
    [store EXCEPT ![slot] = JSONStringify([st EXCEPT !.savedAt = t])]

\* A stored text that JSON.parse rejects.
CorruptSave == [isNull |-> FALSE, corrupt |-> TRUE]

\* storage.loadGame(slot): the parsed value; null when the key is absent or
\* JSON.parse throws
storageLoadGame(store, slot) ==
    IF store[slot].isNull THEN NullState
    ELSE IF store[slot].corrupt THEN NullState
    ELSE JSONParse(store[slot])

\* The values a read of Date.now() can return when the last read returned t.
ClockReads(t) == {t, Min(t + 1, MaxClock)}

-----------------------------------------------------------------------------
(* StoryEngine.  The methods are functions of the engine's fields, held in  *)
(* a record m = [state, generating, inflight, saves, now, emitted].         *)

Engine ==
    [ state |-> state, generating |-> generating, inflight |-> inflight,
      saves |-> saves, now |-> now, emitted |-> <<>> ]

\* (faulty variant: the threshold of the level after the next is read)
NextLevelXp_OneLevelLate(level) ==
    IF InRange(XP_PER_LEVEL, level + 1) /\ At(XP_PER_LEVEL, level + 1) # 0
    THEN At(XP_PER_LEVEL, level + 1)
    ELSE DefaultNextLevelXp

NextLevelXp(level) ==
    IF InRange(XP_PER_LEVEL, level) /\ At(XP_PER_LEVEL, level) # 0
    THEN At(XP_PER_LEVEL, level)
    ELSE DefaultNextLevelXp

ItemPools ==
    [ dnd |-> <<"Magic Scroll", "Enchanted Sword", "Ancient Tome", "Healing Potion", "Dragon Scale">>,
      scifi |-> <<"Energy Cell", "Neural Chip", "Plasma Rifle", "Nano-med Kit", "Quantum Drive">>,
      horror |-> <<"Torn Page", "Rusty Key", "Strange Amulet", "Faded Photo", "Cracked Mirror">> ]

LevelTexts ==
    << "Level 1 reached!", "Level 2 reached!", "Level 3 reached!", "Level 4 reached!",
       "Level 5 reached!", "Level 6 reached!", "Level 7 reached!", "Level 8 reached!",
       "Level 9 reached!", "Level 10 reached!" >>

\* A call of an observer: onSceneUpdate, onStatsUpdate or onQuestUpdate,
\* the last with the quest log it is handed.
Notify(event, log) == [event |-> event, log |-> log]

\* addQuestEntry(text)
\* (faulty variant: the entry at the front is dropped when the log is full)
CutLog_DropsNewest(log) ==
    IF Len(log) > QuestLogCap THEN Tail(log) ELSE log

CutLog(log) ==
    IF Len(log) > QuestLogCap THEN SubSeq(log, 1, Len(log) - 1) ELSE log

addQuestEntry(m, text) ==
    LET log == <<[text |-> text, chapter |-> m.state.chapter]>> \o m.state.questLog
        cut == CutLog(log)
    IN  [m EXCEPT !.state.questLog = cut, !.emitted = Append(@, Notify("quest", cut))]

\* The level-up check of applyChoiceConsequences
\* (faulty variant: the threshold must be exceeded)
LevelUpDue_Strict(st) == st.xp > NextLevelXp(st.level) /\ st.level < MaxLevel

LevelUpDue(st) == st.xp >= NextLevelXp(st.level) /\ st.level < MaxLevel

\* (faulty variant: the heal restores hp to the new maximum)
LevelHealed_ToFull(hp, maxHp) == maxHp

LevelHealed(hp, maxHp) == Min(hp + LevelHeal, maxHp)

levelUp(m) ==
    IF LevelUpDue(m.state)
    THEN LET maxHp == m.state.maxHp + LevelMaxHpBonus
             m1 == [m EXCEPT !.state.level = @ + 1,
                             !.state.maxHp = maxHp,
                             !.state.hp = LevelHealed(@, maxHp)]
         IN  addQuestEntry(m1, LevelTexts[m1.state.level])
    ELSE m

\* The HP rule of applyChoiceConsequences
\* (faulty variant: no floor)
ClampHp_NoFloor(hp, maxHp) == Min(maxHp, hp)

ClampHp(hp, maxHp) == Max(MinHp, Min(maxHp, hp))

\* (faulty variant: the safe option gains nothing)
hpDelta_SafeGainsNothing(index) == IF index = 0 THEN 0 - BoldHpCost ELSE 0

hpDelta(index) ==
    IF index = 0 THEN 0 - BoldHpCost ELSE IF index = 2 THEN SafeHpGain ELSE 0

hpChange(m, msg, index) ==
    IF IsFix(msg)
    THEN [m EXCEPT !.state.hp = ClampHp(@ + hpDelta(index), m.state.maxHp)]
    ELSE m

\* The inventory rule of applyChoiceConsequences
\* (faulty variant: an item already held is taken again)
CanHold_NoDuplicateCheck(inventory, item) == Len(inventory) < InventoryCap

CanHold(inventory, item) ==
    ~Contains(inventory, item) /\ Len(inventory) < InventoryCap

inventoryGain(m, msg, drop, itemIdx) ==
    IF IsFeat(msg) /\ drop
    THEN LET item == At(ItemPools[m.state.style], itemIdx)
         IN  IF CanHold(m.state.inventory, item)
             THEN [m EXCEPT !.state.inventory = Append(@, item)]
             ELSE m
    ELSE m

\* The quest log entries of applyChoiceConsequences
questEntries(m, msg) ==
    LET m1 == IF IsRefactor(msg)
              THEN addQuestEntry(m, "The Great Restructuring begins...") ELSE m
        m2 == IF IsRelease(msg) THEN addQuestEntry(m1, "A new era dawns!") ELSE m1
    IN  IF IsMerge(msg) THEN addQuestEntry(m2, "Factions united (or divided)") ELSE m2

\* applyChoiceConsequences(choice, index); xpGain, drop and itemIdx are the
\* outcomes of its three Math.random() draws.
applyChoiceConsequences(m, index, xpGain, drop, itemIdx) ==
    LET msg == At(m.state.commits, m.state.commitIndex).subject
        m1 == [m EXCEPT !.state.xp = @ + xpGain]
        m2 == levelUp(m1)
        m3 == hpChange(m2, msg, index)
        m4 == inventoryGain(m3, msg, drop, itemIdx)
        m5 == questEntries(m4, msg)
    IN  [m5 EXCEPT !.emitted = Append(@, Notify("stats", <<>>))]

\* saveGame(slot); t1 and t2 are its two reads of Date.now()
saveGame(m, slot, t1, t2) ==
    IF m.state.isNull THEN m
    ELSE LET st == [m.state EXCEPT !.savedAt = t1]
         IN  [m EXCEPT !.state = st,
                       !.saves = storageSaveGame(@, slot, st, t2),
                       !.now = t2]

\* generateNextScene up to its await: the guard, the flag, the request
\* (faulty variant: no guard)
GenerationGuard_Absent(m) == FALSE

GenerationGuard(m) == m.generating

SceneRequest(st, playerChoice, caller) ==
    [ commits |-> st.commits,
      currentCommitIndex |-> st.commitIndex,
      style |-> st.style,
      gameState |-> [hp |-> st.hp, xp |-> st.xp, inventory |-> st.inventory],
      playerChoice |-> playerChoice,
      caller |-> caller ]

generateNextScene(m, playerChoice, caller) ==
    IF GenerationGuard(m) THEN m
    ELSE [m EXCEPT !.generating = TRUE,
                   !.inflight = Append(@, SceneRequest(m.state, playerChoice, caller))]

\* generateEpilogue
generateEpilogue(m) ==
    [m EXCEPT !.state.currentScene = EpilogueScene(m.state),
              !.emitted = Append(@, Notify("scene", <<>>))]

-----------------------------------------------------------------------------
(* music-engine.js: SeededRNG.  The seed is a 32-bit unsigned number, held *)
(* as its two halves.                                                      *)

\* u * v mod 2^16 and the carry u * v div 2^16, for 16-bit u and v
MulLow(u, v) == (u * (v % Byte) + ((u * (v \div Byte)) % Byte) * Byte) % Half
MulCarry(u, v) ==
    (u * (v % Byte) + ((u * (v \div Byte)) % Byte) * Byte) \div Half
        + (u * (v \div Byte)) \div Byte

LcgMul == Word(25, 26125)         \* 1664525
LcgAdd == Word(15470, 62303)      \* 1013904223

\* (seed * 1664525 + 1013904223) >>> 0
LcgStep(seed) ==
    LET hi == seed[1]
        lo == seed[2]
        low == MulLow(lo, LcgMul[2]) + LcgAdd[2]
        high == MulCarry(lo, LcgMul[2]) + MulLow(hi, LcgMul[2])
                   + MulLow(lo, LcgMul[1]) + LcgAdd[1] + low \div Half
    IN  Word(high % Half, low % Half)

\* Math.floor(next * n) for the value next = seed / 0xFFFFFFFF and n < 256:
\* with seed * n = q * 2^32 + r, it is q, and q + 1 when q + r >= 0xFFFFFFFF.
ScaledFloor(seed, n) ==
    LET t == seed[1] * n + (seed[2] * n) \div Half
        q == t \div Half
        rhi == t % Half
        rlo == (seed[2] * n) % Half
    IN  IF rhi = Half - 1 /\ rlo + q >= Half - 1 THEN q + 1 ELSE q

\* The generator: its seed, the calls of next() made, and the array length
\* and the index of the last pick (length 0 when the last call was next()).
NewRng == [seed |-> Word(0, 0), steps |-> 0, len |-> 0, index |-> 0]

\* next(): the seed moves on; the value returned is seed / 0xFFFFFFFF
next(r) == [r EXCEPT !.seed = LcgStep(@), !.steps = @ + 1, !.len = 0, !.index = 0]

\* nextInt(min, max) after its call of next()
nextInt(r, min, max) == ScaledFloor(r.seed, max - min + 1) + min

\* pick(arr) for an array of len elements: the index it reads
pick(r, len) ==
    LET r1 == next(r)
    IN  [r1 EXCEPT !.len = len, !.index = nextInt(r1, 0, len - 1)]
NotAnalysed == [commits |-> <<>>, results |-> <<>>]

\* init: the index of the root, ROOTS[rootIdx] being undefined outside
\* 0..11; buildNotePool: ROOTS.indexOf(root), and the indices at which it
\* reads ROOTS for the intervals of a scale
RootIndex(analysis) == JsRem(analysis.hashSeed, RootCount)

MajorScale == {0, 2, 4, 5, 7, 9, 11}

NotePoolIndices(analysis, scale) ==
    LET rootIdx == IF RootIndex(analysis) \in 0..(RootCount - 1)
                   THEN RootIndex(analysis) ELSE 0 - 1
    IN  {JsRem(rootIdx + interval, RootCount) : interval \in scale}
-----------------------------------------------------------------------------
(* storage.js: the response cache.  entries holds, for each key stored      *)
(* under KEYS.CACHE_PREFIX, the time at which it expires; index is the list *)
(* under KEYS.CACHE_INDEX.  used lists the keys from the most to the least  *)
(* recently used (set, or read with a hit), evicted the keys the last call  *)
(* pruned, and oldest the key that was last in used when that call began.   *)

MAX_CACHE == 10
DefaultTtl == 1      \* ttlMs = 3600000, in ticks of the clock

\* An entry of the cache: {value, expires}; NoEntry where nothing is stored.
NoEntry == [value |-> "null", expires |-> NullTime]

\* latest is the value and expiry of the last setCache of each key that
\* completed, NoEntry once the key was pruned or deleted or the cache was
\* cleared; lapsed are the keys found expired and not stored since;
\* returned is what the last getCache returned.
EmptyCache ==
    [entries |-> <<>>, index |-> <<>>, used |-> <<>>, evicted |-> {}, oldest |-> 0,
     fresh |-> 0, hit |-> FALSE, latest |-> <<>>, lapsed |-> {}, returned |-> "null"]

Without(seq, key) == SelectSeq(seq, LAMBDA k : k # key)
Stored(c) == {k \in 1..Len(c.entries) : c.entries[k] # NoEntry}

\* localStorage.setItem / removeItem of the entry of a key
PutEntry(entries, key, entry) ==
    [k \in 1..Max(Len(entries), key) |->
        IF k = key THEN entry ELSE IF k <= Len(entries) THEN entries[k] ELSE NoEntry]

DropEntries(entries, keys) ==
    [k \in 1..Len(entries) |-> IF k \in keys THEN NoEntry ELSE entries[k]]

\* _updateCacheIndex(key) up to the write of the index: the new index and
\* the entries left once the keys cut from it were removed
updateCacheIndex(c, key) ==
    LET index == <<key>> \o Without(c.index, key)
        toRemove == {index[i] : i \in (MAX_CACHE + 1)..Len(index)}
    IN  [c EXCEPT !.index = SubSeq(index, 1, Min(MAX_CACHE, Len(index))),
                  !.entries = DropEntries(@, toRemove),
                  !.evicted = toRemove]

\* clearAllCache()
clearAllCache(c) ==
    [c EXCEPT !.entries = DropEntries(@, Range(c.index)), !.index = <<>>,
              !.used = <<>>, !.latest = DropEntries(@, 1..Len(@))]

\* setCache(key, value, ttlMs).  failAt: the write that localStorage refuses
\* for lack of room, the entry's or the index's, or none.  A refused write of
\* the index comes after the entry was written and the cut keys' entries
\* removed; the index stays as it was, and clearAllCache reads that index.
WriteFaults == {"none", "entry", "index"}

setCache(c, key, value, ttl, failAt, t) ==
    LET c0 == [c EXCEPT !.oldest = IF c.used = <<>> THEN 0 ELSE c.used[Len(c.used)],
                        !.evicted = {}, !.hit = FALSE, !.returned = "null",
                        !.fresh = Max(@, key),
                        !.lapsed = @ \ {key}]
        entry == [value |-> value, expires |-> t + ttl]
        c1 == [c0 EXCEPT !.entries = PutEntry(@, key, entry)]
        c2 == updateCacheIndex(c1, key)
    IN  CASE failAt = "entry" -> clearAllCache(c0)
          [] failAt = "index" -> clearAllCache([c2 EXCEPT !.index = c.index, !.evicted = {}])
          [] OTHER ->
                [c2 EXCEPT !.used = SelectSeq(<<key>> \o Without(c.used, key),
                                              LAMBDA k : k \notin c2.evicted),
                           !.latest = DropEntries(PutEntry(@, key, entry), c2.evicted)]

\* deleteCache(key)
deleteCache(c, key) ==
    [c EXCEPT !.entries = DropEntries(@, {key}), !.index = Without(@, key),
              !.used = Without(@, key), !.latest = DropEntries(@, {key})]

\* getCache(key)
\* (faulty variant: an entry never expires)
Expired_Never(t, expires) == FALSE

Expired(t, expires) == t > expires

getCache(c, key, t) ==
    LET c0 == [c EXCEPT !.evicted = {}, !.hit = FALSE, !.returned = "null"]
    IN  IF key \notin Stored(c) THEN c0
        ELSE IF Expired(t, c.entries[key].expires)
             THEN [deleteCache(c0, key) EXCEPT !.lapsed = @ \cup {key}]
             ELSE [c0 EXCEPT !.hit = TRUE, !.used = <<key>> \o Without(@, key),
                             !.returned = c.entries[key].value]

-----------------------------------------------------------------------------
(* app.js: the fields of app and what the handlers showed last.  phase is   *)
(* the place at which beginAdventure waits: "scene" at its await of         *)
(* startGame, "sleep" at its await of sleep(600), "audio" at its await of   *)
(* musicEngine.play(); "idle" when it is not running.                       *)

NewApp ==
    [ currentRepo |-> EmptyRepo,
      currentStyle |-> "dnd",
      commits |-> <<>>,
      analysis |-> NullAnalysis,
      musicStarted |-> FALSE,
      screen |-> "landing",
      error |-> "",
      phase |-> "idle",
      startGameCalls |-> 0 ]

-----------------------------------------------------------------------------
(* music-engine.js: the composer.  A Tone.js node is the record of the      *)
(* layer it belongs to, its role in it and the init call that made it;      *)
(* tone.live holds the nodes constructed and not disposed, tone.started    *)
(* the sequences started, tone.starting the play() calls that wait at      *)
(* their await of Tone.start().                                             *)

Node(layer, role, gen) == [layer |-> layer, role |-> role, gen |-> gen]
NoNode == Node("none", "none", 0)

NewComposer ==
    [ isPlaying |-> FALSE,
      style |-> "dnd",
      analysis |-> NullAnalysis,
      parts |-> <<>>,
      synths |-> <<>>,
      effects |-> <<>>,
      masterVol |-> NoNode,
      initialized |-> FALSE ]

\* threw: the nodes whose release threw in the last call; inits: the init
\* calls made; returned: what the last toggle() returned.
NewTone ==
    [ transport |-> "stopped",
      live |-> {},
      started |-> {},
      starting |-> <<>>,
      inits |-> 0,
      threw |-> {},
      returned |-> FALSE ]

\* The composer and Tone.js as the methods below see them, with the error
\* the method throws.
Music == [c |-> composer, t |-> tone, thrown |-> ""]

Throws(mu, err) == [mu EXCEPT !.thrown = err]

\* dispose(): the nodes the composer holds, and those of them it releases
\* when the stop or the dispose of the nodes in fails throws
\* (faulty variant: the first release that throws ends the loop)
Tracked(c) ==
    Range(c.parts) \cup Range(c.synths) \cup Range(c.effects)
        \cup (IF c.masterVol = NoNode THEN {} ELSE {c.masterVol})

ReleaseThrows(n, fails) == <<n.layer, n.role>> \in fails

Released_StopsAtFirstThrow(c, fails) ==
    IF \E n \in Tracked(c) : ReleaseThrows(n, fails) THEN {} ELSE Tracked(c)

Released(c, fails) == {n \in Tracked(c) : ~ReleaseThrows(n, fails)}

dispose(mu, fails) ==
    LET released == Released(mu.c, fails)
    IN  [mu EXCEPT !.t.transport = "stopped",
                   !.t.live = @ \ released,
                   !.t.started = @ \ released,
                   !.t.threw = Tracked(mu.c) \ released,
                   !.c.parts = <<>>,
                   !.c.synths = <<>>,
                   !.c.effects = <<>>,
                   !.c.initialized = FALSE,
                   !.c.isPlaying = FALSE]

\* init: the conditions of the layers
\* (faulty variants: a bass for a single voice; a pad whatever the style)
BassGate_AnyVoice(music) == music.voices >= 1

BassGate(music) == music.voices >= 2
PadGate_VoicesOnly(style, music) == music.voices >= 3

PadGate(style, music) == music.voices >= 3 \/ style = "horror"
PercussionGate(style, music) == style # "horror" \/ music.energy > HalfEnergy

\* init: a synth and its sequence, both kept by the composer
addLayer(mu, layer, gen) ==
    [mu EXCEPT !.t.live = @ \cup {Node(layer, "synth", gen), Node(layer, "part", gen)},
               !.c.synths = Append(@, Node(layer, "synth", gen)),
               !.c.parts = Append(@, Node(layer, "part", gen))]

\* buildPercussion, and the push of the part it returns: the kick synth is
\* known to the sequence only; null when a constructor throws.
buildPercussion(mu, gen, kickFails) ==
    IF kickFails THEN mu
    ELSE [mu EXCEPT !.t.live = @ \cup {Node("percussion", "synth", gen),
                                       Node("percussion", "part", gen)},
                    !.c.parts = Append(@, Node("percussion", "part", gen))]

\* init(style, analysis).  failAt: the constructor that throws, if any;
\* fails: the releases that throw in the dispose() it begins with.
FailPoints == {"none", "melody"}

init(mu, style, analysis, failAt, kickFails, fails) ==
    LET gen == mu.t.inits + 1
        m0 == dispose([mu EXCEPT !.c.style = style, !.c.analysis = analysis], fails)
        m1 == [m0 EXCEPT !.t.inits = gen]
        music == analysis.music
        fx == << Node("effects", "reverb", gen), Node("effects", "delay", gen),
                 Node("effects", "limiter", gen) >>
        m2 == [m1 EXCEPT !.t.live = @ \cup Range(fx) \cup {Node("master", "volume", gen)},
                         !.c.effects = fx,
                         !.c.masterVol = Node("master", "volume", gen)]
        m3 == addLayer(m2, "melody", gen)
        m4 == IF BassGate(music) THEN addLayer(m3, "bass", gen) ELSE m3
        m5 == IF PadGate(style, music) THEN addLayer(m4, "pad", gen) ELSE m4
        m6 == IF PercussionGate(style, music)
              THEN buildPercussion(m5, gen, kickFails) ELSE m5
    IN  IF analysis.isNull THEN Throws(m1, "init failed")
        ELSE IF failAt = "melody" THEN Throws(m2, "init failed")
        ELSE [m6 EXCEPT !.c.initialized = TRUE]

\* play() up to its await of Tone.start(); returned: this.isPlaying as the
\* caller finds it when it gets control back; gen: the init calls made
\* before this call
playCall(mu, caller) ==
    IF ~mu.c.initialized THEN mu
    ELSE [mu EXCEPT !.t.starting =
                       Append(@, [caller |-> caller, returned |-> mu.c.isPlaying,
                                  gen |-> mu.t.inits])]

\* play() from its await on
playResumed(mu, k) ==
    [mu EXCEPT !.t.starting = SubSeq(@, 1, k - 1) \o SubSeq(@, k + 1, Len(@)),
               !.t.started = @ \cup Range(mu.c.parts),
               !.t.transport = "started",
               !.c.isPlaying = TRUE]

\* play() when Tone.start() rejects
playRejected(mu, k) ==
    Throws([mu EXCEPT !.t.starting = SubSeq(@, 1, k - 1) \o SubSeq(@, k + 1, Len(@))],
           "start rejected")

pause(mu) == [mu EXCEPT !.t.transport = "paused", !.c.isPlaying = FALSE]

\* toggle(): play() is not awaited
toggle(mu) ==
    LET m1 == IF mu.c.isPlaying THEN pause(mu) ELSE playCall(mu, "toggle")
    IN  [m1 EXCEPT !.t.returned = m1.c.isPlaying]

-----------------------------------------------------------------------------
(* Actions *)

\* The record of a step: the method called or the event handled, the choice
\* index of a makeChoice, and whether the method went past its early returns.
Call(op, arg, accepted) == [op |-> op, arg |-> arg, accepted |-> accepted]

Init ==
    /\ state = NullState
    /\ generating = FALSE
    /\ inflight = <<>>
    /\ saves = [slot \in Slots |-> NoSave]
    /\ now = 0
    /\ emitted = <<>>
    /\ thrown = ""
    /\ lastCall = Call("none", 0, FALSE)
    /\ calls = 0
    /\ composer = NewComposer
    /\ tone = NewTone
    /\ app = NewApp
    /\ rng = NewRng
    /\ analysed = NotAnalysed
    /\ cache = EmptyCache
    /\ reply = NoReply

\* The engine's fields after a step that ends in m.
Becomes(m) ==
    /\ state' = m.state
    /\ generating' = m.generating
    /\ inflight' = m.inflight
    /\ saves' = m.saves
    /\ now' = m.now
    /\ emitted' = m.emitted
    /\ thrown' = ""

\* startGame(repo, style, commits, analysis), up to the await of the request
\* (or to its end, when generateNextScene returns at its guard).
startGameWith(m, repo, style, commits, analysis, t) ==
    LET m1 == [m EXCEPT !.state = createInitialState(repo, style, commits, analysis, t),
                        !.now = t]
    IN  generateNextScene(m1, "", "startGame")

\* startGame with the commit list of the repository and its analysis
startGame(m, repo, style, t) ==
    startGameWith(m, repo, style, RepoCommits(repo), analyzeCommits(RepoCommits(repo)), t)

StartGame(repo, style) ==
    /\ Becomes(startGame(Engine, repo, style, now))
    /\ lastCall' = Call("startGame", 0, TRUE)

\* makeChoice(choiceIndex): its two early returns
\* (faulty variant: the generating flag is not tested)
MakeChoiceGuard_IgnoresFlag(m) == m.state.isNull

MakeChoiceGuard(m) == m.state.isNull \/ m.generating

NoSuchChoice(m, choiceIndex) ==
    m.state.currentScene.isNull
        \/ ~InRange(m.state.currentScene.choices, choiceIndex)

MakeChoiceReturnsEarly(m, choiceIndex) ==
    MakeChoiceGuard(m) \/ NoSuchChoice(m, choiceIndex)

\* makeChoice: the end condition
\* (faulty variant: the history length is not tested)
EndCondition_NoHistoryCheck(st) == st.commitIndex >= Len(st.commits) - 1

\* (faulty variant: the epilogue waits for a third choice)
EndCondition_AfterThreeChoices(st) ==
    st.commitIndex >= Len(st.commits) - 1 /\ Len(st.history) > 2

EndCondition(st) ==
    st.commitIndex >= Len(st.commits) - 1 /\ Len(st.history) > 1

\* makeChoice: the advance of the cursor
\* (faulty variant: the cursor is not clamped to the last index)
AdvanceIndex_NoClamp(st) == st.commitIndex + 1

\* (faulty variant: the cursor stops one short of the last index)
AdvanceIndex_StopsBeforeLast(st) == Min(st.commitIndex + 1, Len(st.commits) - 2)

AdvanceIndex(st) == Min(st.commitIndex + 1, Len(st.commits) - 1)

\* makeChoice(choiceIndex) from the history entry on, up to the await of the
\* next scene, or to its end.
\* makeChoice: the history entry of the turn
\* (faulty variant: the sha is read at the advanced cursor)
historyEntry_AtAdvancedIndex(st, choice) ==
    [ narrative |-> st.currentScene.narrative,
      choice |-> choice.text,
      commitSha |-> At(st.commits, AdvanceIndex(st)).sha ]

historyEntry(st, choice) ==
    [ narrative |-> st.currentScene.narrative,
      choice |-> choice.text,
      commitSha |-> At(st.commits, st.commitIndex).sha ]

makeChoiceOf(m, choice, choiceIndex, xpGain, drop, itemIdx, t1, t2) ==
    LET entry == historyEntry(m.state, choice)
        m1 == [m EXCEPT !.state.history = Append(@, entry)]
        m2 == applyChoiceConsequences(m1, choiceIndex, xpGain, drop, itemIdx)
        ci == AdvanceIndex(m2.state)
        m3 == [m2 EXCEPT !.state.commitIndex = ci,
                         !.state.chapter = (ci \div ChapterSize) + 1]
    IN  IF EndCondition(m3.state) THEN generateEpilogue(m3)
        ELSE IF GenerationGuard(m3)
             THEN saveGame(generateNextScene(m3, choice.text, "makeChoice"),
                           "auto", t1, t2)
             ELSE generateNextScene(m3, choice.text, "makeChoice")

makeChoice(m, choiceIndex, xpGain, drop, itemIdx, t1, t2) ==
    makeChoiceOf(m, At(m.state.currentScene.choices, choiceIndex), choiceIndex,
                 xpGain, drop, itemIdx, t1, t2)

MakeChoice(choiceIndex, xpGain, drop, itemIdx) ==
    IF MakeChoiceReturnsEarly(Engine, choiceIndex)
    THEN /\ Becomes(Engine)
         /\ lastCall' = Call("makeChoice", choiceIndex, FALSE)
    ELSE /\ \E t2 \in ClockReads(now) :
               Becomes(makeChoice(Engine, choiceIndex, xpGain, drop, itemIdx, now, t2))
         /\ lastCall' = Call("makeChoice", choiceIndex, TRUE)

\* makeChoice(text), as called for a text typed into the custom-choice input
\* (renderChoices passes the string on, onChoiceMade hands it to the engine).
\* scene.choices[text] is then a property of the array: undefined for most
\* texts, the length or a method for a text that names one.  Such a value has
\* no text of its own, and as an index it equals neither 0 nor 2.
ArrayProperties == {"length", "find"}
NotAnIndex == 0 - 1
PropertyValue == [text |-> "undefined"]

NoSuchProperty(m, text) ==
    m.state.currentScene.isNull \/ text \notin ArrayProperties

MakeChoiceText(text, xpGain, drop, itemIdx) ==
    IF MakeChoiceGuard(Engine) \/ NoSuchProperty(Engine, text)
    THEN /\ Becomes(Engine)
         /\ lastCall' = Call("makeChoiceText", 0, FALSE)
    ELSE /\ \E t2 \in ClockReads(now) :
               Becomes(makeChoiceOf(Engine, PropertyValue, NotAnIndex,
                                    xpGain, drop, itemIdx, now, t2))
         /\ lastCall' = Call("makeChoiceText", 0, TRUE)

\* The request at position k settles: generateNextScene from its await to
\* its end, then the rest of the method that awaited it.  ok: the call of
\* aiEngine.generateScene resolved, with a text in which n choices are found.
RemoveAt(seq, k) == SubSeq(seq, 1, k - 1) \o SubSeq(seq, k + 1, Len(seq))

Modes == {"local", "api"}

\* aiEngine.generateScene settles.  A failure in API mode is thrown.  In
\* local mode generateViaLocal catches it and calls generateFallbackScene
\* with its own arguments, the two prompts: commit is undefined there, and
\* reading commit.subject throws, so the promise is rejected as well.
generateScene(req, mode, ok, n) ==
    IF ok /\ req.commits # <<>> THEN [rejected |-> FALSE, scene |-> parseAIResponse(req, n)]
    ELSE IF mode = "local" THEN [rejected |-> TRUE, error |-> "TypeError"]
    ELSE [rejected |-> TRUE, error |-> "API error"]

sceneSettled(m, k, mode, ok, n, t1, t2) ==
    LET req == m.inflight[k]
        st == m.state
        result == generateScene(req, mode, ok, n)
        scene == IF ~result.rejected THEN result.scene
                 ELSE generateFallbackScene(At(st.commits, st.commitIndex), st.style,
                                            st.commitIndex, Len(st.commits))
        m1 == [m EXCEPT !.state.currentScene = scene,
                        !.emitted = Append(@, Notify("scene", <<>>)),
                        !.generating = FALSE,
                        !.inflight = RemoveAt(@, k)]
    IN  IF req.caller = "makeChoice" THEN saveGame(m1, "auto", t1, t2) ELSE m1

\* generateFallbackScene reads commit.subject: with no commit under the
\* cursor it throws, out of the catch block.  Only the finally clause runs
\* then, and the awaiting method rejects.
finallyClause(flag) == FALSE

FallbackThrows(m, k, mode, ok, n) ==
    /\ generateScene(m.inflight[k], mode, ok, n).rejected
    /\ ~InRange(m.state.commits, m.state.commitIndex)

sceneThrew(m, k) ==
    [m EXCEPT !.generating = finallyClause(@), !.inflight = RemoveAt(@, k)]

SceneSettled(ok, n) ==
    \E k \in 1..Len(inflight) : \E t2 \in ClockReads(now) : \E mode \in Modes :
        IF FallbackThrows(Engine, k, mode, ok, n)
        THEN LET m == sceneThrew(Engine, k)
             IN  /\ state' = m.state
                 /\ generating' = m.generating
                 /\ inflight' = m.inflight
                 /\ saves' = m.saves
                 /\ now' = m.now
                 /\ emitted' = m.emitted
                 /\ thrown' = "TypeError"
                 /\ lastCall' = Call("sceneSettled", 0, FALSE)
        ELSE /\ Becomes(sceneSettled(Engine, k, mode, ok, n, now, t2))
             /\ lastCall' = Call("sceneSettled", 0, TRUE)

\* saveGame(slot), called from the game menu
SaveGame(slot) ==
    /\ \E t2 \in ClockReads(now) : Becomes(saveGame(Engine, slot, now, t2))
    /\ lastCall' = Call("saveGame", 0, ~state.isNull)

\* loadGame(slot): the state it installs
\* (faulty variant: the fields of the saved state are laid over the live one,
\* whose stats survive)
LoadedState_Merged(live, saved) ==
    IF live.isNull THEN saved
    ELSE [saved EXCEPT !.xp = live.xp, !.history = live.history]

LoadedState(live, saved) == saved

SlotNumber(slot) == IF slot = "auto" THEN 0 ELSE 1

\* loadGame(slot)
LoadGame(slot) ==
    LET saved == storageLoadGame(saves, slot)
    IN  IF saved.isNull
        THEN /\ thrown' = "Save not found"
             /\ emitted' = <<>>
             /\ lastCall' = Call("loadGame", SlotNumber(slot), FALSE)
             /\ UNCHANGED <<state, generating, inflight, saves, now>>
        ELSE /\ Becomes([Engine EXCEPT !.state = LoadedState(state, saved)])
             /\ lastCall' = Call("loadGame", SlotNumber(slot), TRUE)

\* The composer and Tone.js after a method that ends in mu.
MusicBecomes(mu) ==
    /\ composer' = mu.c
    /\ tone' = mu.t
    /\ thrown' = mu.thrown

StoryUnchanged ==
    UNCHANGED <<state, generating, inflight, saves, now, emitted, calls, libVars>>

MusicInit(style, analysis, failAt, kickFails, fails) ==
    LET mu == init(Music, style, analysis, failAt, kickFails, fails)
    IN  /\ tone.inits < MaxInits
        /\ MusicBecomes(mu)
        /\ lastCall' = Call("init", IF kickFails THEN 1 ELSE 0, mu.thrown = "")

MusicPlay ==
    /\ Len(tone.starting) < MaxPending
    /\ MusicBecomes(playCall(Music, "play"))
    /\ lastCall' = Call("play", 0, composer.initialized)

\* Tone.start() settles for the play() call at position k.
ToneStartSettled(ok) ==
    \E k \in 1..Len(tone.starting) :
        IF ok
        THEN /\ MusicBecomes(playResumed(Music, k))
             /\ lastCall' = Call("playResumed", k, TRUE)
        ELSE /\ MusicBecomes(playRejected(Music, k))
             /\ lastCall' = Call("playRejected", k, TRUE)

MusicPause ==
    /\ MusicBecomes(pause(Music))
    /\ lastCall' = Call("pause", 0, TRUE)

MusicToggle ==
    /\ Len(tone.starting) < MaxPending
    /\ MusicBecomes(toggle(Music))
    /\ lastCall' = Call("toggle", 0, TRUE)

MusicDispose(fails) ==
    /\ MusicBecomes(dispose(Music, fails))
    /\ lastCall' = Call("dispose", 0, TRUE)

-----------------------------------------------------------------------------
(* app.js: the handlers.  beginAdventure is cut at its awaits of the        *)
(* network, of startGame, of sleep(600) and of musicEngine.play().          *)

AppRepos == {EmptyRepo, [kind |-> "mixed", n |-> MaxCommits - 1]}

\* startWithRepo(input) with no style in the URL
StartWithRepo(repo) ==
    /\ app.phase = "idle"
    /\ app' = [app EXCEPT !.currentRepo = repo, !.error = "", !.screen = "style"]
    /\ lastCall' = Call("startWithRepo", repo.n, TRUE)
    /\ UNCHANGED <<state, generating, inflight, saves, now, emitted, thrown,
                   composer, tone, libVars>>

\* selectStyle(style), and beginAdventure up to its first await
SelectStyle(style) ==
    /\ app.phase = "idle"
    /\ app.screen = "style"
    /\ app' = [app EXCEPT !.currentStyle = style, !.screen = "loading", !.phase = "fetch"]
    /\ lastCall' = Call("selectStyle", 0, TRUE)
    /\ UNCHANGED <<state, generating, inflight, saves, now, emitted, thrown,
                   composer, tone, calls, libVars>>

\* beginAdventure: its catch block
\* (faulty variant: the failure is dropped, nothing is shown)
adventureFailed_Silent(a, message) == [a EXCEPT !.phase = "idle"]

adventureFailed(a, message) ==
    [a EXCEPT !.error = message, !.screen = "landing", !.phase = "idle"]

NoCommits(commits) == Len(commits) = 0

\* beginAdventure from the answer of fetchCommits to its await of startGame.
\* A failure of musicEngine.init is caught and logged.
CommitsFetched(ok, failAt) ==
    LET commits == RepoCommits(app.currentRepo)
        style == app.currentStyle
        analysis == analyzeCommits(commits)
        mu == init(Music, style, analysis, failAt, FALSE, {})
        m == startGame(Engine, app.currentRepo, style, now)
    IN  /\ app.phase = "fetch"
        /\ IF ~ok
           THEN /\ app' = adventureFailed(app, "Failed to fetch commits")
                /\ lastCall' = Call("commitsFetched", 0, FALSE)
                /\ UNCHANGED <<state, generating, inflight, saves, now, emitted, thrown,
                               composer, tone>>
           ELSE IF NoCommits(commits)
           THEN /\ app' = adventureFailed(app, "This repository has no commits yet.")
                /\ lastCall' = Call("commitsFetched", 0, FALSE)
                /\ UNCHANGED <<state, generating, inflight, saves, now, emitted, thrown,
                               composer, tone>>
           ELSE /\ composer' = mu.c
                /\ tone' = mu.t
                /\ Becomes(m)
                /\ app' = [app EXCEPT !.commits = commits,
                                      !.analysis = analysis,
                                      !.startGameCalls = @ + 1,
                                      !.phase = IF Len(m.inflight) > Len(inflight)
                                                THEN "scene" ELSE "sleep"]
                /\ lastCall' = Call("commitsFetched", 0, TRUE)
        /\ UNCHANGED <<calls, libVars>>

\* The request of the engine settles; beginAdventure goes on to its sleep
\* when the request was the one its startGame waits for.
AppSceneSettled(ok, n) ==
    /\ SceneSettled(ok, n)
    /\ app' = IF app.phase = "scene" /\ inflight[1].caller = "startGame"
              THEN [app EXCEPT !.phase = "sleep"] ELSE app
    /\ UNCHANGED <<composer, tone, calls, libVars>>

\* beginAdventure from the end of its sleep to its await of play(); play()
\* of a composer that is not initialized returns at once.
AdventureShown ==
    LET mu == playCall(Music, "beginAdventure")
    IN  /\ app.phase = "sleep"
        /\ MusicBecomes(mu)
        /\ app' = IF composer.initialized
                  THEN [app EXCEPT !.screen = "game", !.phase = "audio"]
                  ELSE [app EXCEPT !.screen = "game", !.phase = "idle",
                                   !.musicStarted = TRUE]
        /\ lastCall' = Call("adventureShown", 0, TRUE)
        /\ StoryUnchanged

\* Tone.start() settles for the play() of beginAdventure.
AppToneStartSettled(ok) ==
    /\ app.phase = "audio"
    /\ ToneStartSettled(ok)
    /\ app' = IF ok THEN [app EXCEPT !.phase = "idle", !.musicStarted = TRUE]
              ELSE [app EXCEPT !.phase = "idle"]
    /\ StoryUnchanged

\* onChoiceMade(choiceIndex): on the epilogue the first choice shows the
\* landing screen, the second the style screen, any other starts the game
\* again from the commits the app holds; otherwise makeChoice(choiceIndex).
OnChoiceMade(choiceIndex) ==
    /\ app.screen = "game"
    /\ app.phase = "idle"
    /\ IF ~state.isNull /\ IsEpilogue(state.currentScene)
       THEN /\ IF choiceIndex >= 2
               THEN /\ Becomes(startGameWith(Engine, app.currentRepo, app.currentStyle,
                                             app.commits, app.analysis, now))
                    /\ app' = [app EXCEPT !.startGameCalls = @ + 1]
               ELSE /\ app' = [app EXCEPT !.screen = IF choiceIndex = 0 THEN "landing"
                                                     ELSE "style"]
                    /\ UNCHANGED <<state, generating, inflight, saves, now, emitted,
                                   thrown>>
            /\ lastCall' = Call("onChoiceMade", choiceIndex, TRUE)
       ELSE MakeChoice(choiceIndex, XpGainBase, FALSE, 0) /\ UNCHANGED app
    /\ UNCHANGED <<composer, tone, libVars>>

\* The choice starts the game again.
Restarts(choiceIndex) ==
    ~state.isNull /\ IsEpilogue(state.currentScene) /\ choiceIndex >= 2

-----------------------------------------------------------------------------
(* SeededRNG in use *)

LibUnchanged ==
    UNCHANGED <<state, generating, inflight, saves, now, emitted, thrown, calls,
                composer, tone, app>>

RngNext ==
    /\ rng' = next(rng)
    /\ lastCall' = Call("next", 0, TRUE)
    /\ UNCHANGED <<analysed, cache, reply>>
    /\ LibUnchanged

RngPick(len) ==
    /\ rng' = pick(rng, len)
    /\ lastCall' = Call("pick", len, TRUE)
    /\ UNCHANGED <<analysed, cache, reply>>
    /\ LibUnchanged

-----------------------------------------------------------------------------
(* analyzeCommits in use: a commit list is fetched, analysed more than     *)
(* once, and the clock moves on in between.                                *)

CommitsGiven(repo) ==
    /\ analysed.commits = <<>>
    /\ analysed' = [commits |-> RepoCommits(repo), results |-> <<>>]
    /\ lastCall' = Call("fetchCommits", repo.n, TRUE)
    /\ UNCHANGED <<rng, cache, reply>>
    /\ LibUnchanged

Analyze ==
    /\ analysed.commits # <<>>
    /\ Len(analysed.results) < MaxAnalyses
    /\ analysed' = [analysed EXCEPT !.results = Append(@, analyzeCommits(analysed.commits))]
    /\ lastCall' = Call("analyzeCommits", 0, TRUE)
    /\ UNCHANGED <<rng, cache, reply>>
    /\ LibUnchanged

-----------------------------------------------------------------------------
(* The response cache in use.  Keys are numbered in the order in which they *)
(* are first stored; a call stores the next new key or re-stores one of the *)
(* first ReusedKeys, and reads one of the first ReusedKeys.                 *)

CacheKeys == 1..(MAX_CACHE + MaxExtraKeys)
Reused == 1..ReusedKeys

SetCache(key, value, ttl, failAt) ==
    /\ key \in CacheKeys
    /\ cache' = setCache(cache, key, value, ttl, failAt, now)
    /\ lastCall' = Call("setCache", key, failAt = "none")
    /\ UNCHANGED <<rng, analysed, reply>>
    /\ LibUnchanged

GetCache(key) ==
    /\ cache' = getCache(cache, key, now)
    /\ lastCall' = Call("getCache", key, key \in Stored(cache'))
    /\ UNCHANGED <<rng, analysed, reply>>
    /\ LibUnchanged

DeleteCache(key) ==
    /\ cache' = [deleteCache(cache, key) EXCEPT !.evicted = {}, !.hit = FALSE,
                                                !.returned = "null"]
    /\ lastCall' = Call("deleteCache", key, TRUE)
    /\ UNCHANGED <<rng, analysed, reply>>
    /\ LibUnchanged

ClearAllCache ==
    /\ cache' = [clearAllCache(cache) EXCEPT !.evicted = {}, !.hit = FALSE,
                                             !.returned = "null"]
    /\ lastCall' = Call("clearAllCache", 0, TRUE)
    /\ UNCHANGED <<rng, analysed, reply>>
    /\ LibUnchanged

-----------------------------------------------------------------------------
(* A response text is parsed. *)
ParseReply ==
    /\ ~reply.parsed
    /\ reply' = parseReply(reply.text)
    /\ lastCall' = Call("parseAIResponse", Len(reply.text), TRUE)
    /\ UNCHANGED <<rng, analysed, cache>>
    /\ LibUnchanged

Tick ==
    /\ now < MaxClock
    /\ now' = now + 1
    /\ lastCall' = Call("tick", 0, TRUE)
    /\ UNCHANGED <<state, generating, inflight, saves, emitted, thrown, calls,
                   composer, tone, app, libVars>>

-----------------------------------------------------------------------------
(* Specifications *)

\* A call from outside of startGame, saveGame or loadGame.
Called == calls < MaxCalls /\ calls' = calls + 1

\* The player goes on choosing while fewer than limit choices were accepted.
TurnsLeft(limit) == IF state.isNull THEN TRUE ELSE Len(state.history) < limit

\* Any interleaving of the engine's methods with the settling of requests,
\* on the short repositories.
Next ==
    \/ \E repo \in MixedRepos : StartGame(repo, "dnd") /\ Called /\ UNCHANGED appVars
    \/ \E i \in {0, 3} :
          TurnsLeft(MaxTurns) /\ MakeChoice(i, XpGainBase, TRUE, 0) /\ UNCHANGED <<calls, appVars>>
    \/ \E ok \in BOOLEAN : SceneSettled(ok, 1) /\ UNCHANGED <<calls, appVars>>
    \/ SaveGame("slot_1") /\ Called /\ UNCHANGED appVars
    \/ \E slot \in Slots : LoadGame(slot) /\ Called /\ UNCHANGED appVars

Spec == Init /\ [][Next]_vars

\* One game of a short repository, every option, every draw.
NextPlay ==
    \/ \E repo \in MixedRepos \cup {FeatsRepo} :
          state.isNull /\ StartGame(repo, "horror") /\ UNCHANGED <<calls, appVars>>
    \/ \E i \in 0..3 : \E draw \in {<<FALSE, 0>>, <<TRUE, 0>>, <<TRUE, 1>>} :
          /\ TurnsLeft(MaxTurns)
          /\ MakeChoice(i, XpGainBase + XpGainSpan - 1, draw[1], draw[2])
          /\ UNCHANGED <<calls, appVars>>
    \/ \E ok \in BOOLEAN : SceneSettled(ok, 2) /\ UNCHANGED <<calls, appVars>>

SpecPlay == Init /\ [][NextPlay]_vars

\* Loading: the slots hold nothing or an unreadable text at first; two turns
\* of a game of four commits, its auto-saves and manual saves, and loads of
\* both slots.
InitStored ==
    /\ saves \in [Slots -> {NoSave, CorruptSave}]
    /\ state = NullState
    /\ generating = FALSE
    /\ inflight = <<>>
    /\ now = 0
    /\ emitted = <<>>
    /\ thrown = ""
    /\ lastCall = Call("none", 0, FALSE)
    /\ calls = 0
    /\ composer = NewComposer
    /\ tone = NewTone
    /\ app = NewApp
    /\ rng = NewRng
    /\ analysed = NotAnalysed
    /\ cache = EmptyCache
    /\ reply = NoReply

NextLoad ==
    \/ state.isNull /\ StartGame([kind |-> "mixed", n |-> 4], "scifi")
          /\ UNCHANGED <<calls, appVars>>
    \/ TurnsLeft(2) /\ MakeChoice(1, XpGainBase, FALSE, 0) /\ UNCHANGED <<calls, appVars>>
    \/ SceneSettled(FALSE, 0) /\ UNCHANGED <<calls, appVars>>
    \/ SaveGame("slot_1") /\ Called /\ UNCHANGED appVars
    \/ \E slot \in Slots : LoadGame(slot) /\ Called /\ UNCHANGED appVars

SpecLoad == InitStored /\ [][NextLoad]_vars

\* The language model fails on every call: one game of a short repository
\* in each style.
NextFallback ==
    \/ \E repo \in MixedRepos : \E style \in Styles :
          state.isNull /\ StartGame(repo, style) /\ UNCHANGED <<calls, appVars>>
    \/ \E i \in 0..2 :
          /\ TurnsLeft(MaxTurns)
          /\ MakeChoice(i, XpGainBase, FALSE, 0)
          /\ UNCHANGED <<calls, appVars>>
    \/ SceneSettled(FALSE, 0) /\ UNCHANGED <<calls, appVars>>

SpecFallback == Init /\ [][NextFallback]_vars

\* One game of the repository of fixes: the bold and the safe option.
NextFixes ==
    \/ state.isNull /\ StartGame(FixesRepo, "scifi") /\ UNCHANGED <<calls, appVars>>
    \/ \E i \in {0, 2} :
          TurnsLeft(LongLen) /\ MakeChoice(i, XpGainBase, FALSE, 0) /\ UNCHANGED <<calls, appVars>>
    \/ SceneSettled(FALSE, 0) /\ UNCHANGED <<calls, appVars>>

SpecFixes == Init /\ [][NextFixes]_vars

\* One game of the plain repository: the least and the greatest XP gain.
\* The plain game draws the top of the xp range, and on its first FreeDraws
\* turns either end of it.
XpDraws ==
    IF TurnsLeft(FreeDraws)
    THEN {XpGainBase, XpGainBase + XpGainSpan - 1}
    ELSE {XpGainBase + XpGainSpan - 1}

NextXp ==
    \/ state.isNull /\ StartGame(PlainRepo, "dnd") /\ UNCHANGED <<calls, appVars>>
    \/ \E xpGain \in XpDraws :
          TurnsLeft(XpLen) /\ MakeChoice(1, xpGain, FALSE, 0) /\ UNCHANGED <<calls, appVars>>
    \/ SceneSettled(FALSE, 0) /\ UNCHANGED <<calls, appVars>>

SpecXp == Init /\ [][NextXp]_vars

\* One game of the repository of quests: every turn adds three entries to
\* the quest log, and a fourth when the level rises.
NextQuests ==
    \/ state.isNull /\ StartGame(QuestsRepo, "dnd") /\ UNCHANGED <<calls, appVars>>
    \/ \E i \in {0, 1} : \E xpGain \in {XpGainBase, XpGainBase + XpGainSpan - 1} :
          TurnsLeft(QuestLen) /\ MakeChoice(i, xpGain, FALSE, 0)
              /\ UNCHANGED <<calls, appVars>>
    \/ \E ok \in BOOLEAN : SceneSettled(ok, 2) /\ UNCHANGED <<calls, appVars>>

SpecQuests == Init /\ [][NextQuests]_vars

\* One game of a repository of upkeep work.
NextUpkeep ==
    \/ \E repo \in UpkeepRepos :
          state.isNull /\ StartGame(repo, "horror") /\ UNCHANGED <<calls, appVars>>
    \/ \E i \in {0, 1} :
          TurnsLeft(UpkeepLen) /\ MakeChoice(i, XpGainBase, FALSE, 0)
              /\ UNCHANGED <<calls, appVars>>
    \/ \E ok \in BOOLEAN : SceneSettled(ok, 3) /\ UNCHANGED <<calls, appVars>>

SpecUpkeep == Init /\ [][NextUpkeep]_vars

\* One game of a short repository in which the player also types texts into
\* the custom-choice input, and picks an option the scene does not have.
FreeTexts == {"look around", "length", "find"}

NextText ==
    \/ \E repo \in MixedRepos :
          state.isNull /\ StartGame(repo, "scifi") /\ UNCHANGED <<calls, appVars>>
    \/ \E i \in {1, 3} :
          TurnsLeft(MaxTurns) /\ MakeChoice(i, XpGainBase, FALSE, 0)
              /\ UNCHANGED <<calls, appVars>>
    \/ \E text \in FreeTexts :
          TurnsLeft(MaxTurns) /\ MakeChoiceText(text, XpGainBase, FALSE, 0)
              /\ UNCHANGED <<calls, appVars>>
    \/ \E ok \in BOOLEAN : SceneSettled(ok, 2) /\ UNCHANGED <<calls, appVars>>

SpecText == Init /\ [][NextText]_vars

\* The app: repositories are entered, with or without commits, styles are
\* selected, and the player chooses on the game screen.
NextApp ==
    \/ \E repo \in AppRepos : StartWithRepo(repo) /\ Called
    \/ \E style \in {"dnd", "horror"} : SelectStyle(style)
    \/ \E ok \in BOOLEAN : \E failAt \in {"none", "melody"} : CommitsFetched(ok, failAt)
    \/ AppSceneSettled(FALSE, 0)
    \/ AdventureShown
    \/ \E ok \in BOOLEAN : AppToneStartSettled(ok)
    \/ \E i \in {0, 2} :
          /\ OnChoiceMade(i)
          /\ IF Restarts(i) THEN Called ELSE TurnsLeft(MaxTurns) /\ UNCHANGED calls

SpecApp == Init /\ [][NextApp]_vars

\* The composer alone: any interleaving of its methods with the settling
\* of Tone.start(), with constructors and releases that throw.
MusicAnalysis(voices, energy) ==
    [ isNull |-> FALSE, totalCommits |-> 1, fixCount |-> 0,
      music |-> [voices |-> voices, energy |-> energy] ]

MusicAnalyses ==
    { MusicAnalysis(1, HalfEnergy), MusicAnalysis(2, HalfEnergy + 1),
      MusicAnalysis(MaxVoices, HalfEnergy) }

\* Every number of voices analyzeCommits gives, with an energy at and above
\* the percussion threshold.
GateAnalyses ==
    { MusicAnalysis(v, e) : v \in 1..MaxVoices, e \in {HalfEnergy, HalfEnergy + 1} }

ReleaseFaults == {{}, {<<"melody", "part">>}}

NextMusic ==
    \/ \E style \in {"dnd", "horror"} : \E analysis \in MusicAnalyses :
       \E failAt \in FailPoints :
       \E kickFails \in {k \in BOOLEAN : k => failAt = "none"} :
          MusicInit(style, analysis, failAt, kickFails, {}) /\ StoryUnchanged /\ UNCHANGED app
    \/ MusicPlay /\ StoryUnchanged /\ UNCHANGED app
    \/ \E ok \in BOOLEAN : ToneStartSettled(ok) /\ StoryUnchanged /\ UNCHANGED app
    \/ MusicPause /\ StoryUnchanged /\ UNCHANGED app
    \/ MusicToggle /\ StoryUnchanged /\ UNCHANGED app
    \/ \E fails \in ReleaseFaults : MusicDispose(fails) /\ StoryUnchanged /\ UNCHANGED app

SpecMusic == Init /\ [][NextMusic]_vars

\* init and dispose alone, over every style and every number of voices.
NextLayers ==
    \/ \E style \in Styles : \E analysis \in GateAnalyses : \E kickFails \in BOOLEAN :
          MusicInit(style, analysis, "none", kickFails, {}) /\ StoryUnchanged /\ UNCHANGED app
    \/ MusicDispose({}) /\ StoryUnchanged /\ UNCHANGED app

SpecLayers == Init /\ [][NextLayers]_vars

\* A generator made from a seed, then called.  The seeds: zero, the largest,
\* and seeds one, two and three steps before the largest.
RngSeeds ==
    { Word(0, 0), MaxWord, Word(9973, 46880), Word(37854, 64389), Word(41283, 21822),
      Word(4660, 22136) }

PickLengths == {1, 3, 12}

InitRng ==
    /\ state = NullState
    /\ generating = FALSE
    /\ inflight = <<>>
    /\ saves = [slot \in Slots |-> NoSave]
    /\ now = 0
    /\ emitted = <<>>
    /\ thrown = ""
    /\ lastCall = Call("none", 0, FALSE)
    /\ calls = 0
    /\ composer = NewComposer
    /\ tone = NewTone
    /\ app = NewApp
    /\ rng \in {[NewRng EXCEPT !.seed = seed] : seed \in RngSeeds}
    /\ analysed = NotAnalysed
    /\ cache = EmptyCache
    /\ reply = NoReply

NextRng ==
    \/ rng.steps < MaxRngSteps /\ RngNext
    \/ \E len \in PickLengths : rng.steps < MaxRngSteps /\ RngPick(len)

SpecRng == InitRng /\ [][NextRng]_vars

\* Commit lists of every kind, analysed.
AnalysedRepos == HexRepos \cup MixedRepos \cup {FeatsRepo, FixesRepo}

NextAnalyze ==
    \/ \E repo \in AnalysedRepos : CommitsGiven(repo)
    \/ Analyze
    \/ Tick

SpecAnalyze == Init /\ [][NextAnalyze]_vars

\* Response texts of up to MaxTokens tokens.
ReplyTexts == UNION {[1..n -> Tokens] : n \in 0..MaxTokens}

InitParse ==
    /\ reply \in {[NoReply EXCEPT !.text = text] : text \in ReplyTexts}
    /\ state = NullState
    /\ generating = FALSE
    /\ inflight = <<>>
    /\ saves = [slot \in Slots |-> NoSave]
    /\ now = 0
    /\ emitted = <<>>
    /\ thrown = ""
    /\ lastCall = Call("none", 0, FALSE)
    /\ calls = 0
    /\ composer = NewComposer
    /\ tone = NewTone
    /\ app = NewApp
    /\ rng = NewRng
    /\ analysed = NotAnalysed
    /\ cache = EmptyCache

NextParse == ParseReply

SpecParse == InitParse /\ [][NextParse]_vars

\* The first ReusedKeys keys are stored, stored again, read and deleted, the
\* cache is cleared and the clock moves while no other key was stored yet and
\* again once MAX_CACHE keys were stored; in between, new keys are stored one
\* after the other.  Writes are refused once MAX_CACHE keys were stored.
Settled == cache.fresh <= ReusedKeys \/ cache.fresh >= MAX_CACHE

\* openGameMenu: the handler of a save slot.  listSaves offers the slots
\* that hold a save; loadGame installs the save, the menu is closed and the
\* loaded scene is shown.  No field of app is written.
MenuLoad(slot) ==
    /\ app.screen = "game"
    /\ ~storageLoadGame(saves, slot).isNull
    /\ LoadGame(slot)
    /\ UNCHANGED <<app, composer, tone, calls, libVars>>

\* The app with its game menu: two repositories are played one after the
\* other, each in its style, the turns save automatically, and a save is
\* loaded from the menu.
NextMenu ==
    \/ \E repo \in MixedRepos : StartWithRepo(repo) /\ Called
    \/ \E style \in {"dnd", "horror"} : SelectStyle(style)
    \/ CommitsFetched(TRUE, "none")
    \/ AppSceneSettled(FALSE, 0)
    \/ AdventureShown
    \/ AppToneStartSettled(TRUE)
    \/ /\ IF Restarts(2) THEN app.startGameCalls <= MaxCalls ELSE TurnsLeft(MaxTurns)
       /\ OnChoiceMade(2)
       /\ UNCHANGED calls
    \/ \E slot \in Slots : MenuLoad(slot)

SpecMenu == Init /\ [][NextMenu]_vars

\* Games of short repositories and of a repository without commits, started
\* one over the other, with every request settling in the end.  The game
\* without commits is started only while no request is pending.
NextLive ==
    \/ \E repo \in MixedRepos \cup {EmptyRepo} :
          /\ repo = EmptyRepo => ~generating
          /\ StartGame(repo, "dnd") /\ Called /\ UNCHANGED appVars
    \/ TurnsLeft(MaxTurns) /\ MakeChoice(0, XpGainBase, FALSE, 0)
          /\ UNCHANGED <<calls, appVars>>
    \/ \E ok \in BOOLEAN : SceneSettled(ok, 2) /\ UNCHANGED <<calls, appVars>>

Settles == \E ok \in BOOLEAN : SceneSettled(ok, 2) /\ UNCHANGED <<calls, appVars>>

SpecLive == Init /\ [][NextLive]_vars /\ WF_vars(Settles)

NextCache ==
    \/ SetCache(cache.fresh + 1, "v1", DefaultTtl, "none")
    \/ \E key \in Reused :
          /\ Settled
          /\ SetCache(key, IF key \in Stored(cache) THEN "v2" ELSE "v1",
                      IF key = 1 THEN 0 ELSE DefaultTtl, "none")
    \/ \E failAt \in WriteFaults \ {"none"} :
          cache.fresh >= MAX_CACHE /\ SetCache(cache.fresh + 1, "v1", DefaultTtl, failAt)
    \/ \E key \in Reused : Settled /\ GetCache(key)
    \/ \E key \in Reused : Settled /\ DeleteCache(key)
    \/ Settled /\ ClearAllCache
    \/ Settled /\ Tick

SpecCache == Init /\ [][NextCache]_vars

-----------------------------------------------------------------------------
(* Properties *)

Accepted(call, op) == call.op = op /\ call.accepted
LastIndex(st) == Len(st.commits) - 1

\* C1: a makeChoice call made while a scene generation is in flight changes
\* nothing: the GameState is the same, no observer is notified, no scene is
\* requested and no slot is written.
C1_NoOpWhileGenerating ==
    [][ (generating /\ lastCall'.op = "makeChoice")
          => /\ state' = state
             /\ emitted' = <<>>
             /\ inflight' = inflight
             /\ generating' = generating
             /\ saves' = saves
             /\ ~lastCall'.accepted ]_vars

\* A choice that the current scene offers was made while a request was
\* in flight, and was ignored.
C1_Witness ==
    /\ generating
    /\ lastCall = Call("makeChoice", 0, FALSE)
    /\ ~state.isNull
    /\ ~state.currentScene.isNull
    /\ InRange(state.currentScene.choices, 0)

\* C2: at any time at most one scene request is outstanding, and the flag
\* is set exactly while one is.
C2_AtMostOneRequest ==
    /\ Len(inflight) <= 1
    /\ generating <=> (Len(inflight) = 1)

\* startGame was called while the request of another game was in flight:
\* that request is still the only one.
C2_Witness ==
    /\ Len(inflight) = 1
    /\ lastCall.op = "startGame"
    /\ inflight[1].commits # state.commits

\* C3: every startGame call issues a scene request for commit index 0 of
\* the game it installs.
C3_StartGameRequestsFirstScene ==
    [][ lastCall'.op = "startGame"
          => /\ state'.commitIndex = 0
             /\ \E k \in 1..Len(inflight') :
                   /\ inflight'[k].commits = state'.commits
                   /\ inflight'[k].style = state'.style
                   /\ inflight'[k].currentCommitIndex = 0
                   /\ inflight'[k].caller = "startGame" ]_vars

\* C4: the cursor stays within 0..commits.length-1, and a makeChoice call
\* leaves it where it is or moves it one commit forward.
C4_CursorMonotoneBounded ==
    [][ /\ ~state'.isNull
           => state'.commitIndex >= 0 /\ state'.commitIndex <= LastIndex(state')
        /\ (lastCall'.op = "makeChoice" /\ ~state.isNull)
           => /\ state'.commits = state.commits
              /\ state'.commitIndex >= state.commitIndex
              /\ state'.commitIndex <= state.commitIndex + 1
              /\ lastCall'.accepted
                   => state'.commitIndex = Min(state.commitIndex + 1, LastIndex(state)) ]_vars

\* The first accepted choice of a 1-commit game: the cursor was clamped to
\* the last index, 0.
C4_Witness ==
    /\ ~state.isNull
    /\ Accepted(lastCall, "makeChoice")
    /\ Len(state.commits) = 1
    /\ state.commitIndex = 0
    /\ Len(state.history) = 1

\* C5: hp stays within 1..maxHp.
C5_HpWithinBounds ==
    ~state.isNull => (state.hp >= 1 /\ state.hp <= state.maxHp)

\* The bold option of a fix commit was taken with hp at the floor.
C5_Witness ==
    /\ ~state.isNull
    /\ lastCall = Call("makeChoice", 0, TRUE)
    /\ state.hp = 1
    /\ state.maxHp > StartHp

\* C6: level stays within 1..10; an accepted choice raises it by one when
\* the xp after the gain is at least XP_PER_LEVEL[level] (counted from 0)
\* and level < 10, and leaves it alone otherwise; no other step changes it.
\* Below level 10 the xp is always short of the threshold of the level, so
\* the turns that raise the level are the turns on which xp crosses it.
C6_LevelUpExactlyAtThreshold ==
    [][ ~state.isNull
          => /\ state'.level >= 1 /\ state'.level <= 10
             /\ state'.level < 10 => state'.xp < XP_PER_LEVEL[state'.level + 1]
             /\ IF Accepted(lastCall', "makeChoice")
                THEN state'.level = state.level
                        + (IF state.level < 10
                              /\ state'.xp >= XP_PER_LEVEL[state.level + 1]
                           THEN 1 ELSE 0)
                ELSE state'.level = state.level ]_vars

\* Level 10 was reached by the choice just accepted: the 66th, the first
\* that can bring xp to 3200.
C6_Witness ==
    /\ ~state.isNull
    /\ Accepted(lastCall, "makeChoice")
    /\ Len(state.history) = 66
    /\ state.level = 10
    /\ state.xp >= 3200

\* C7: the inventory holds at most 8 items, no item twice.
C7_InventoryCappedNoDuplicates ==
    ~state.isNull
       => Len(state.inventory) <= 8 /\ NoDuplicates(state.inventory)

\* Three turns on feat commits, two different items held.
C7_Witness ==
    /\ ~state.isNull
    /\ Len(state.history) = 3
    /\ Len(state.inventory) = 2
    /\ state.repo.kind = "feats"

\* C8: an accepted choice ends in the epilogue exactly when the advanced
\* cursor is the last index and history holds more than one entry; the
\* epilogue has isEpilogue set and three choices, and no scene is requested
\* on that turn.  In a 3-commit game that is the second accepted choice.
C8_EpilogueExactlyAtEnd ==
    [][ Accepted(lastCall', "makeChoice")
          => LET atEnd == /\ state'.commitIndex = LastIndex(state')
                          /\ Len(state'.history) > 1
             IN  /\ Len(state'.history) = Len(state.history) + 1
                 /\ IF atEnd
                    THEN /\ state'.currentScene.isEpilogue = TRUE
                         /\ Len(state'.currentScene.choices) = 3
                         /\ inflight' = inflight
                         /\ ~generating'
                    ELSE /\ state'.currentScene = state.currentScene
                         /\ ~IsEpilogue(state'.currentScene)
                         /\ Len(inflight') = Len(inflight) + 1
                 /\ (Len(state.commits) = 3 /\ Len(state'.history) = 1) => ~atEnd
                 /\ (Len(state.commits) = 3 /\ Len(state'.history) = 2) => atEnd ]_vars

\* The second accepted choice of a 3-commit game: the epilogue.
C8_Witness ==
    /\ ~state.isNull
    /\ Accepted(lastCall, "makeChoice")
    /\ Len(state.commits) = 3
    /\ Len(state.history) = 2
    /\ IsEpilogue(state.currentScene)

\* C9: once the epilogue is the current scene, a makeChoice call changes
\* nothing and notifies no observer.
C9_EpilogueIsTerminal ==
    [][ (lastCall'.op = "makeChoice"
            /\ (IF state.isNull THEN FALSE ELSE IsEpilogue(state.currentScene)))
          => state' = state /\ emitted' = <<>> ]_vars

\* C10: right after saveGame(slot), loadGame(slot) yields a GameState equal
\* to the live one.
C10_SaveLoadRoundTrip ==
    [][ Accepted(lastCall', "saveGame")
          => \A slot \in Slots :
                saves'[slot] # saves[slot] => storageLoadGame(saves', slot) = state' ]_vars

\* C11: loadGame(slot) on a slot that is absent or unreadable throws 'Save not
\* found' and leaves the GameState as it was; on a present slot it installs
\* exactly the saved value, and throws nothing.
C11_LoadReplacesOrThrows ==
    [][ lastCall'.op = "loadGame"
          => \E slot \in Slots :
                /\ lastCall'.arg = SlotNumber(slot)
                /\ IF saves[slot] = NoSave \/ saves[slot] = CorruptSave
                   THEN /\ thrown' = "Save not found"
                        /\ state' = state
                        /\ ~lastCall'.accepted
                   ELSE /\ thrown' = ""
                        /\ state' = JSONParse(saves[slot])
                        /\ lastCall'.accepted
                /\ saves' = saves ]_vars

\* The auto-save of the first turn was loaded over the state of the second
\* turn, whose request is still in flight: the xp of the second turn is gone.
C11_Witness ==
    /\ Accepted(lastCall, "loadGame")
    /\ lastCall.arg = SlotNumber("auto")
    /\ Len(inflight) = 1
    /\ inflight[1].gameState.xp > state.xp
    /\ saves["slot_1"] = CorruptSave

\* C12: when every call of the language model fails, each request still
\* ends with a scene installed and announced: not an epilogue, narrated from
\* the current commit, with the three choices of the style; nothing is
\* thrown to the caller and the flag is cleared.
C12_FallbackSceneOnFailure ==
    [][ lastCall'.op = "sceneSettled"
          => /\ thrown' = ""
             /\ ~generating'
             /\ Len(inflight') = Len(inflight) - 1
             /\ ~state'.currentScene.isNull
             /\ ~state'.currentScene.isEpilogue
             /\ state'.currentScene.narrative.src = "fallback"
             /\ state'.currentScene.narrative.sha
                   = At(state'.commits, state'.commitIndex).sha
             /\ Len(state'.currentScene.choices) = 3
             /\ state'.currentScene.choices = FallbackChoiceSets[state'.style]
             /\ \E i \in 1..Len(emitted') : emitted'[i].event = "scene" ]_vars

\* A horror game of three commits was played to its epilogue on fallback
\* scenes only.
C12_Witness ==
    /\ ~state.isNull
    /\ state.style = "horror"
    /\ Len(state.commits) = 3
    /\ IsEpilogue(state.currentScene)
    /\ \A i \in 1..Len(state.history) : state.history[i].narrative.src = "fallback"

\* C13: when the request of an accepted makeChoice settles, the 'auto' slot
\* is written with the state of the game in which the choice was made: its
\* commits, the cursor and the stats the request was issued with, the choice
\* as the last history entry, and the scene just installed.
C13_AutoSaveHoldsTheTurn ==
    [][ (lastCall'.op = "sceneSettled" /\ Len(inflight) = 1
            /\ inflight[1].caller = "makeChoice")
          => LET req == inflight[1]
                 saved == storageLoadGame(saves', "auto")
             IN  /\ ~saved.isNull
                 /\ [i \in 1..Len(saved.commits) |-> saved.commits[i].sha]
                       = [i \in 1..Len(req.commits) |-> req.commits[i].sha]
                 /\ saved.commitIndex = req.currentCommitIndex
                 /\ saved.xp = req.gameState.xp
                 /\ saved.hp = req.gameState.hp
                 /\ saved.inventory = req.gameState.inventory
                 /\ Len(saved.history) >= 1
                 /\ saved.history[Len(saved.history)].choice = req.playerChoice
                 /\ ~saved.currentScene.isNull
                 /\ saved.currentScene = state'.currentScene ]_vars

\* C14: analyzeCommits returns null exactly for the empty commit list, and
\* when fetchCommits answers with no commits beginAdventure does not call
\* startGame, leaves the engine's GameState as it was, and shows an error on
\* the landing screen.
C14_NoCommitsNoGame ==
    /\ \A repo \in AppRepos :
          analyzeCommits(RepoCommits(repo)).isNull <=> RepoCommits(repo) = <<>>
    /\ [][ ( /\ app.phase = "fetch"
             /\ app'.phase # "fetch"
             /\ RepoCommits(app.currentRepo) = <<>> )
           => /\ app'.startGameCalls = app.startGameCalls
              /\ state' = state
              /\ generating' = generating
              /\ inflight' = inflight
              /\ app'.error # ""
              /\ app'.screen = "landing"
              /\ app'.phase = "idle" ]_vars

\* A game is under way, a repository without commits is entered and its
\* fetch has answered with the empty list.
C14_Witness ==
    /\ lastCall.op = "commitsFetched"
    /\ ~lastCall.accepted
    /\ app.currentRepo = EmptyRepo
    /\ app.error = "This repository has no commits yet."
    /\ ~state.isNull
    /\ state.repo # EmptyRepo
    /\ app.startGameCalls = 1

\* C15: play() called while the composer is not initialized does not throw,
\* starts no sequence and no transport, waits for nothing, and leaves
\* isPlaying false.
C15_PlayUninitializedIsNoOp ==
    [][ (lastCall'.op = "play" /\ ~lastCall'.accepted)
           => /\ thrown' = ""
              /\ tone'.started = tone.started
              /\ tone'.transport = tone.transport
              /\ tone'.starting = tone.starting
              /\ ~composer'.isPlaying ]_vars

\* C16: toggle() returns the new playing state: false when it paused, true
\* when it resumed an initialized composer; and when the play() it began
\* completes, isPlaying is the value toggle() returned.
C16_ToggleReturnsNewState ==
    [][ /\ lastCall'.op = "toggle"
           => IF composer.isPlaying
              THEN ~tone'.returned /\ ~composer'.isPlaying
              ELSE composer.initialized => tone'.returned
        /\ ( /\ lastCall'.op = "playResumed"
             /\ tone' # tone
             /\ tone.starting[lastCall'.arg].caller = "toggle" )
           => composer'.isPlaying = tone.starting[lastCall'.arg].returned ]_vars

\* C17: init leaves isPlaying false and the transport stopped, whatever was
\* playing before, and starts none of the sequences; the composer begins to
\* play only as a play() completes that was called after the last init.
C17_InitNeverStartsPlayback ==
    [][ /\ lastCall'.op = "init"
           => /\ ~composer'.isPlaying
              /\ tone'.transport = "stopped"
              /\ Range(composer'.parts) \cap tone'.started = {}
        /\ (composer'.isPlaying /\ ~composer.isPlaying)
           => /\ lastCall'.op = "playResumed"
              /\ tone.starting[lastCall'.arg].gen = tone.inits ]_vars

\* C18: dispose() can be called in every state; every node the composer
\* holds whose release does not throw is released, whatever other release
\* throws; afterwards the composer holds no parts, no synths and no effects
\* and is neither initialized nor playing; a second dispose() changes
\* nothing.
C18_DisposeSafeAndIdempotent ==
    \A fails \in ReleaseFaults : \A again \in ReleaseFaults :
          LET once == dispose(Music, fails)
              twice == dispose(once, again)
          IN  /\ once.thrown = ""
              /\ once.c.parts = <<>> /\ once.c.synths = <<>> /\ once.c.effects = <<>>
              /\ ~once.c.initialized /\ ~once.c.isPlaying
              /\ once.t.transport = "stopped"
              /\ \A n \in Tracked(composer) :
                    ~ReleaseThrows(n, fails) => n \notin once.t.live
              /\ twice.c = once.c
              /\ twice.t.live \subseteq once.t.live
              /\ [twice.t EXCEPT !.threw = {}, !.live = {}]
                    = [once.t EXCEPT !.threw = {}, !.live = {}]

\* dispose() has run on a playing composer while the release of the melody
\* sequence threw: the sequence is still live, the rest is released.
C18_Witness ==
    /\ lastCall.op = "dispose"
    /\ tone.threw # {}
    /\ tone.threw \subseteq tone.live
    /\ \A n \in tone.live : n \in tone.threw \/ n.layer = "percussion"
    /\ ~composer.initialized
    /\ composer.parts = <<>>
    /\ tone.inits > 0

\* C19: apart from nodes whose release may have thrown, every live node was
\* made by the most recent init, and none is live after dispose().
C19_NoLeakedVoices ==
    \A n \in tone.live :
        \/ ReleaseThrows(n, UNION ReleaseFaults)
        \/ n.gen = tone.inits /\ lastCall.op # "dispose"

\* C20: an init in which no constructor throws builds the melody layer
\* always, the bass layer exactly when voices >= 2, the pad layer exactly
\* when voices >= 3 or the style is horror, and the percussion layer exactly
\* when the style is not horror or energy > 0.5.
LayersOf(c) == {n.layer : n \in Range(c.parts)}

\* init has just returned, and no constructor threw.
InitDone == lastCall.op = "init" /\ lastCall.accepted /\ lastCall.arg = 0

C20_LayerGating ==
    InitDone =>
        LET layers == LayersOf(composer)
            music == composer.analysis.music
            style == composer.style
        IN  /\ composer.initialized
            /\ layers \subseteq {"melody", "bass", "pad", "percussion"}
            /\ "melody" \in layers
            /\ "bass" \in layers <=> music.voices >= 2
            /\ "pad" \in layers <=> (music.voices >= 3 \/ style = "horror")
            /\ "percussion" \in layers <=> (style # "horror" \/ music.energy > HalfEnergy)
            /\ Range(composer.parts) \subseteq tone.live
            /\ layers = {n.layer : n \in Range(composer.synths)}
                            \cup (layers \cap {"percussion"})

\* init('horror', analysis) with one voice and energy 0.5 has built the
\* melody and the pad and nothing else.
C20_Witness ==
    /\ InitDone
    /\ composer.style = "horror"
    /\ composer.analysis = MusicAnalysis(1, HalfEnergy)
    /\ LayersOf(composer) = {"melody", "pad"}

\* C21 (as stated): for every style, init with one voice builds neither bass
\* nor pad, and init with four voices builds melody, bass and pad.
C21_OneVoiceNoBassNoPad ==
    InitDone =>
        /\ composer.analysis.music.voices = 1
              => LayersOf(composer) \cap {"bass", "pad"} = {}
        /\ composer.analysis.music.voices = MaxVoices
              => {"melody", "bass", "pad"} \subseteq LayersOf(composer)

\* C21 (amended): init with one voice builds no bass, and a pad exactly when
\* the style is horror; init with four voices builds melody, bass and pad.
C21_OneVoiceNoBassPadOnlyHorror ==
    InitDone =>
        /\ composer.analysis.music.voices = 1
              => /\ "bass" \notin LayersOf(composer)
                 /\ "pad" \in LayersOf(composer) <=> composer.style = "horror"
        /\ composer.analysis.music.voices = MaxVoices
              => {"melody", "bass", "pad"} \subseteq LayersOf(composer)

\* init('dnd', analysis) with four voices has built melody, bass, pad and
\* percussion.
C21_Witness ==
    /\ InitDone
    /\ composer.analysis.music.voices = MaxVoices
    /\ composer.style = "dnd"
    /\ LayersOf(composer) = {"melody", "bass", "pad", "percussion"}

\* C22: after every call the seed is a 32-bit number other than 0xFFFFFFFF,
\* so that next() returned a value below 1, and the index pick reads lies
\* within the array.
C22_NextBelowOne ==
    /\ rng.steps > 0 => rng.seed # MaxWord
    /\ rng.len > 0 => rng.index \in 0..(rng.len - 1)
    /\ rng.seed[1] \in 0..(Half - 1) /\ rng.seed[2] \in 0..(Half - 1)

\* C23: for every analysed commit list the root index hashSeed % 12 lies in
\* 0..11, and so does every index at which buildNotePool reads ROOTS.
C23_RootIndexInRange ==
    \A k \in 1..Len(analysed.results) :
        /\ RootIndex(analysed.results[k]) \in 0..(RootCount - 1)
        /\ NotePoolIndices(analysed.results[k], MajorScale) \subseteq 0..(RootCount - 1)

C25_EvictsLeastRecentlyUsed ==
    /\ Cardinality(Stored(cache)) <= MAX_CACHE
    /\ cache.evicted \cap (Stored(cache) \cup Range(cache.index)) = {}
    /\ lastCall.op = "setCache" /\ cache.evicted # {} => cache.evicted = {cache.oldest}

\* C26: an accepted makeChoice appends exactly one entry to history: the
\* narrative of the scene shown, the text of the option chosen and the sha of
\* the commit under the cursor as it was before the turn; any other step that
\* stays within the game leaves history as it was.
C26_HistoryAppendOnly ==
    [][ IF Accepted(lastCall', "makeChoice")
        THEN state'.history =
                 Append(state.history,
                        [ narrative |-> state.currentScene.narrative,
                          choice |-> At(state.currentScene.choices, lastCall'.arg).text,
                          commitSha |-> At(state.commits, state.commitIndex).sha ])
        ELSE ~Accepted(lastCall', "startGame") /\ ~Accepted(lastCall', "loadGame")
                 /\ ~state.isNull
                 => ~state'.isNull /\ state'.history = state.history ]_vars

\* Two turns were recorded, at two positions of the cursor.
C26_Witness ==
    /\ Accepted(lastCall, "makeChoice")
    /\ Len(state.history) = 2
    /\ state.history[1].commitSha # state.history[2].commitSha

\* C27: a makeChoice whose selection designates no option of the scene shown
\* (an index out of range, a text typed into the custom-choice input), or
\* that finds no scene or no state, changes nothing: the game state is as it
\* was, nothing is notified, no scene is requested and nothing is saved.
C27_NoOptionNoChange ==
    [][ \/ lastCall'.op = "makeChoiceText"
        \/ /\ lastCall'.op = "makeChoice"
           /\ \/ state.isNull
              \/ state.currentScene.isNull
              \/ ~InRange(state.currentScene.choices, lastCall'.arg)
        => /\ state' = state
           /\ emitted' = <<>>
           /\ inflight' = inflight
           /\ saves' = saves ]_vars

\* C28: on an accepted turn whose commit subject matches the fix pattern, hp
\* becomes h + d kept within 1..maxHp, where h is hp after the level-up heal
\* of the turn, if any, and d is -10 for option 0, +5 for option 2 and 0 for
\* any other option; on any other accepted turn hp becomes h.
C28_HpDeltaOnFixTurns ==
    [][ Accepted(lastCall', "makeChoice")
        => LET msg == At(state.commits, state.commitIndex).subject
               h == IF state'.level > state.level
                    THEN Min(state.hp + 20, state'.maxHp) ELSE state.hp
               d == CASE lastCall'.arg = 0 -> 0 - 10
                      [] lastCall'.arg = 2 -> 5
                      [] OTHER -> 0
           IN  state'.hp = IF msg \cap {"fix", "bug", "patch"} # {}
                           THEN Max(1, Min(state'.maxHp, h + d))
                           ELSE h ]_vars

\* The bold option of a fix commit was taken on the turn that raised the
\* level: the heal to the new maximum came first, the cost after it.
C28_Witness ==
    /\ lastCall = Call("makeChoice", 0, TRUE)
    /\ state.level = 2
    /\ Len(state.commits) = 1
    /\ state.hp = state.maxHp - 10
    /\ Len(state.history) = 3

\* C29: every accepted makeChoice adds between 20 and 49 xp.  When the xp
\* after the gain is at least the threshold of the level and the level is
\* below 10, the same turn raises the level by one, adds 10 to maxHp, sets hp
\* to min(hp + 20, new maxHp) before the hp rule of fix commits acts on it,
\* and puts one level-up entry into the quest log; otherwise level, maxHp and
\* the level-up entries stay as they were.  No turn raises the level by more
\* than one.
LevelEntries(log) ==
    Cardinality({i \in 1..Len(log) : log[i].text \in Range(LevelTexts)})

C29_XpGainAndLevelUp ==
    [][ Accepted(lastCall', "makeChoice")
        => LET due == state.level < 10 /\ state'.xp >= XP_PER_LEVEL[state.level + 1]
               msg == At(state.commits, state.commitIndex).subject
               healed == Min(state.hp + 20, state.maxHp + 10)
               d == CASE lastCall'.arg = 0 -> 0 - 10
                      [] lastCall'.arg = 2 -> 5
                      [] OTHER -> 0
           IN  /\ state'.xp - state.xp \in 20..49
               /\ state'.level - state.level \in {0, 1}
               /\ IF due
                  THEN /\ state'.level = state.level + 1
                       /\ state'.maxHp = state.maxHp + 10
                       /\ state'.hp = IF IsFix(msg)
                                      THEN Max(1, Min(state'.maxHp, healed + d))
                                      ELSE healed
                       /\ LevelEntries(state'.questLog) = LevelEntries(state.questLog) + 1
                       /\ \E i \in 1..Len(state'.questLog) :
                              state'.questLog[i].text = LevelTexts[state'.level]
                  ELSE /\ state'.level = state.level
                       /\ state'.maxHp = state.maxHp
                       /\ LevelEntries(state'.questLog) = LevelEntries(state.questLog) ]_vars

\* The level was raised on a turn that began with hp more than 20 below the
\* new maximum: the heal added 20, the bold option then cost 10.
C29_Witness ==
    /\ lastCall = Call("makeChoice", 0, TRUE)
    /\ state.level = 2
    /\ state.maxHp = 110
    /\ state.hp = 70
    /\ LevelEntries(state.questLog) = 1

\* C30: the quest log never holds more than 10 entries.  Each entry added is
\* put at the front, the entries before it follow in their order, and the
\* last of them is dropped when there would be more than 10.  Each entry
\* added is notified once, with the log as it is after that entry; the log
\* changes in no other way within a game.
QuestUpdates(seq) == SelectSeq(seq, LAMBDA e : e.event = "quest")

FollowsLog(log, before) ==
    /\ log # <<>>
    /\ Tail(log) = SubSeq(before, 1, Min(Len(before), 9))

C30_QuestLogCappedNewestFirst ==
    [][ ~state'.isNull /\ ~Accepted(lastCall', "startGame") /\ ~Accepted(lastCall', "loadGame")
        => LET seen == QuestUpdates(emitted')
               logs == <<state.questLog>> \o [j \in 1..Len(seen) |-> seen[j].log]
           IN  /\ Len(state'.questLog) <= 10
               /\ state'.questLog = logs[Len(logs)]
               /\ \A j \in 1..Len(seen) : FollowsLog(logs[j + 1], logs[j]) ]_vars

\* A turn added three entries to a log of nine: two of the nine were dropped.
C30_Witness ==
    /\ Accepted(lastCall, "makeChoice")
    /\ Len(QuestUpdates(emitted)) = 3
    /\ Len(state.questLog) = 10
    /\ Len(state.history) = 4

\* C31: on every accepted turn whose commit subject matches the refactor-like
\* pattern (refactor, clean, improve, update), the release pattern or the
\* merge pattern, the quest entry of that pattern is added to the quest log.
Added(text) == \E j \in 1..Len(emitted) :
    emitted[j].event = "quest" /\ emitted[j].log[1].text = text

C31_QuestEntryPerPattern ==
    Accepted(lastCall, "makeChoice")
        => LET sha == state.history[Len(state.history)].commitSha
               turn == CHOOSE i \in 1..Len(state.commits) : state.commits[i].sha = sha
               msg == state.commits[turn].subject
           IN  /\ msg \cap {"refactor", "clean", "improve", "update"} # {}
                      => Added("The Great Restructuring begins...")
               /\ msg \cap {"release", "version", "v1"} # {} => Added("A new era dawns!")
               /\ msg \cap {"merge"} # {} => Added("Factions united (or divided)")

\* C32: whatever the response text, parseAIResponse returns between 1 and 3
\* choices: the labelled choices found in the text, or the three generic
\* choices when none is found.
C32_OneToThreeChoices ==
    reply.parsed => Len(reply.choices) \in 1..3

\* C33: getCache(key) returns the value of the last setCache of the key while
\* that entry has not expired and was not pruned, deleted or cleared.  When
\* the clock has passed the expiry of the stored entry, getCache returns null
\* and removes the entry and the key's place in the index; from then on
\* getCache(key) returns null until the key is stored again.
C33_GetReturnsLatestUntilExpiry ==
    [][ lastCall'.op = "getCache"
        => LET key == lastCall'.arg
               last == IF key <= Len(cache.latest) THEN cache.latest[key] ELSE NoEntry
           IN  /\ last # NoEntry /\ now <= last.expires => cache'.returned = last.value
               /\ key \in Stored(cache) /\ now > cache.entries[key].expires
                     => /\ cache'.returned = "null"
                        /\ key \notin Stored(cache')
                        /\ key \notin Range(cache'.index)
               /\ key \in cache.lapsed => cache'.returned = "null" ]_vars

\* A key of a full index was read after its expiry: null was returned, and
\* the key left the index.
C33_Witness ==
    /\ lastCall = Call("getCache", 1, FALSE)
    /\ cache.returned = "null"
    /\ cache.lapsed = {1}
    /\ Len(cache.index) = MAX_CACHE - 1

\* C40: whatever calls of setCache, getCache, deleteCache and clearAllCache
\* were made, refused writes included, the keys of the stored entries are the
\* keys of the index, and no key occurs twice in the index.
C40_EntriesMatchIndex ==
    /\ Stored(cache) = Range(cache.index)
    /\ Cardinality(Range(cache.index)) = Len(cache.index)

\* C34: whenever no generation is in flight, a current scene that is not the
\* epilogue was generated for the commit under the cursor of the current
\* game and for its style: no response requested for another game or
\* another position of the cursor is installed or kept as the current scene.
C34_SceneBelongsToCursor ==
    /\ ~state.isNull
    /\ ~generating /\ inflight = <<>>
    /\ ~state.currentScene.isNull
    /\ ~IsEpilogue(state.currentScene)
    => /\ state.currentScene.narrative.sha = At(state.commits, state.commitIndex).sha
       /\ state.currentScene.narrative.index = state.commitIndex
       /\ state.currentScene.narrative.style = state.style

\* Scene notifications among those of one step.
SceneEvents(seq) == Len(SelectSeq(seq, LAMBDA e : e.event = "scene"))

RequestsScene ==
    \/ Accepted(lastCall', "startGame")
    \/ /\ Accepted(lastCall', "makeChoice")
       /\ ~(state'.commitIndex >= Len(state'.commits) - 1 /\ Len(state'.history) > 1)

ChoicesToEpilogue(n) == Max(2, n - 1)

\* C37: a game of N commits reaches its epilogue with the accepted choice
\* number max(2, N-1), not before and not later; when N >= 3 no request is
\* ever made for the commit at the last index; when N = 1 the first choice
\* requests a scene for the single commit a second time.
C37_EpilogueAfterMaxTwoNMinusOne ==
    [][ /\ \A k \in 1..Len(inflight') :
             Len(inflight'[k].commits) >= 3
             => inflight'[k].currentCommitIndex # Len(inflight'[k].commits) - 1
        /\ Accepted(lastCall', "makeChoice")
           => /\ ~IsEpilogue(state.currentScene) /\ IsEpilogue(state'.currentScene)
                 => Len(state'.history) = ChoicesToEpilogue(Len(state'.commits))
              /\ Len(state'.history) = ChoicesToEpilogue(Len(state'.commits))
                 => IsEpilogue(state'.currentScene)
              /\ Len(state'.commits) = 1 /\ Len(state'.history) = 1
                 => /\ inflight' # <<>>
                    /\ inflight'[Len(inflight')].currentCommitIndex = 0
                    /\ inflight'[Len(inflight')].caller = "makeChoice" ]_vars

\* The game of four commits has ended with its third choice.
C37_Witness ==
    /\ ~state.isNull
    /\ Len(state.commits) = 4
    /\ Len(state.history) = 3
    /\ IsEpilogue(state.currentScene)
    /\ Accepted(lastCall, "makeChoice")

\* The number of thresholds XP_PER_LEVEL[1..9] that xp has reached.
ThresholdsReached(xp) ==
    Cardinality({i \in 1..(MaxLevel - 1) : At(XP_PER_LEVEL, i) <= xp})

\* C38: after every turn the level is one more than the number of
\* thresholds XP_PER_LEVEL[1..9] that xp has reached, maxHp is
\* 100 + 10 * (level - 1), and xp is not smaller than before the turn
\* (startGame and loadGame replace the whole state by another game's).
C38_LevelAndMaxHpFollowXp ==
    [][ ~state'.isNull
        => /\ state'.level = 1 + ThresholdsReached(state'.xp)
           /\ state'.maxHp = StartHp + LevelMaxHpBonus * (state'.level - 1)
           /\ ~state.isNull /\ lastCall'.op \notin {"startGame", "loadGame"}
              => state'.xp >= state.xp ]_vars

\* A turn has taken xp over the last threshold and the level to its cap.
C38_Witness ==
    /\ ~state.isNull
    /\ Accepted(lastCall, "makeChoice")
    /\ state.xp >= At(XP_PER_LEVEL, MaxLevel - 1)
    /\ state.level = MaxLevel
    /\ state.maxHp = StartHp + LevelMaxHpBonus * (MaxLevel - 1)

\* The shas of a commit list, in order.
Shas(commits) == [i \in 1..Len(commits) |-> commits[i].sha]

\* C39: after a save was loaded from the game menu, the repository, the
\* style, the commits and the analysis the app holds for its session are
\* those of the loaded game (the ones the epilogue choice that returns to
\* the beginning starts the game from).
C39_SessionMatchesLoadedGame ==
    Accepted(lastCall, "loadGame")
    => /\ app.currentRepo = state.repo
       /\ app.currentStyle = state.style
       /\ Shas(app.commits) = Shas(state.commits)
       /\ app.analysis = state.analysis

====
